---- MODULE Spec2Model ----
(***************************************************************************)
(* LingoPopAI: the App component (entry resolver, notebook, navigation),   *)
(* the roleplay components ScenarioMenu / ScenarioChat and the Oracle      *)
(* facing functions of services/geminiService.ts, as one state machine.    *)
(*                                                                         *)
(* React state is modelled by one variable per useState cell.  A handler   *)
(* runs to its first await in one step; the continuation after the await   *)
(* is the step in which the Oracle answers.  State of a component that is  *)
(* not mounted is kept at its useState initial value, and a setState of an *)
(* unmounted component changes nothing.                                    *)
(***************************************************************************)
EXTENDS Integers, Sequences, FiniteSets, TLC

VARIABLES
  view,            \* App: useState<ViewState>
  langs,           \* App: <<nativeLang, targetLang>>
  currentEntry,    \* App: <<>> (null) or <<entry>>
  savedEntries,    \* App: sequence of entries, newest first
  isSearching,     \* App
  activeScenario,  \* App: <<>> (null) or <<scenario>>
  scenarioReport,  \* App: <<>> (null) or <<report>>
  reportLoading,   \* App
  search,          \* the Promise.all of handleSearch in flight: <<>> or <<rec>>
  strayImages,     \* generateConceptImage calls whose Promise.all already rejected
  now,             \* Date.now()
  scenarios,       \* ScenarioMenu: useState<Scenario[]>
  menuLoading,     \* ScenarioMenu: loading
  menuId,          \* name of the mounted ScenarioMenu, 0 when none is mounted
  genReqs,         \* generateScenarios calls in flight, by ScenarioMenu name
  history,         \* ScenarioChat: useState<ChatMessage[]>
  loading,         \* ScenarioChat: loading
  sid,             \* name of the mounted ScenarioChat, 0 when none is mounted
  turnReqs,        \* chatInScenario calls in flight: [sid, history, prompt]
  evalReqs,        \* evaluateScenario calls in flight: [sid, history, prompt]
  persisted,       \* localStorage item 'lingopop-notebook': <<>> (null) or <<text>>
  madeUnder,       \* the language pair each entry was assembled under (observation only)
  audioSupport,    \* what the platform has for window.AudioContext
  audioContext,    \* geminiService: let audioContext, <<>> (null) or <<context>>
  contextsMade,    \* AudioContext objects constructed so far (observation only)
  tts,             \* the playTTS calls, by slot: where each stands
  sources,         \* buffer sources started
  chatHistory,     \* ResultView: useState<ChatMessage[]>
  isChatting,      \* ResultView
  rvId,            \* name of the mounted ResultView, 0 when none is mounted
  chatReqs,        \* chatWithAI calls in flight: [rv, history, newMessage, currentTerm]
  isPlaying,       \* AudioButton (the one of ResultView's term)
  plays,           \* handlePlay runs that have not ended: [rv, call, stage]
  currentIndex,    \* FlashcardsView
  isFlipped,       \* FlashcardsView
  fvId,            \* name of the mounted FlashcardsView, 0 when none is mounted
  cardTimers,      \* nextCard's timeouts that have not fired, oldest first: [fv, length]
  cardTrail,       \* the indexes the mounted FlashcardsView has shown (observation only)
  apiReq,          \* server: the request last received, [handler, method, body, action]
  apiAwaiting,     \* server: its handler awaits the Oracle
  apiResponses,    \* server: the responses sent to it, [status, error]
  apiCalls,        \* server: the Oracle calls made for it
  lastOp           \* what the last step handled (observation only, read by no action)

vars == <<view, langs, currentEntry, savedEntries, isSearching, activeScenario,
          scenarioReport, reportLoading, search, strayImages, now,
          scenarios, menuLoading, menuId, genReqs, history, loading, sid,
          turnReqs, evalReqs, persisted, madeUnder, audioSupport, audioContext,
          contextsMade, tts, sources, chatHistory, isChatting, rvId, chatReqs,
          isPlaying, plays, currentIndex, isFlipped, fvId, cardTimers, cardTrail,
          apiReq, apiAwaiting, apiResponses, apiCalls, lastOp>>

-----------------------------------------------------------------------------
(* Bounds of the exploration *)

MaxTurns == 5      \* a learner turn is accepted while the history is shorter
MaxSessions == 1   \* ScenarioChat instances that are mounted or awaited at once
MaxMenus == 1      \* ScenarioMenu instances that are mounted or awaited at once
MaxStrays == 1     \* image calls outstanding at once beside the current lookup
MaxTime == 1       \* largest value of Date.now() explored
MaxPlays == 2      \* playTTS calls in flight at once
MaxResults == 2    \* ResultView instances that are mounted or awaited at once
MaxAsks == 2       \* questions one ResultView accepts
MaxDecks == 2      \* FlashcardsView instances that are mounted or awaited at once
MaxNexts == 3      \* cards one FlashcardsView goes on to
MaxSaved == 2      \* entries in the notebook a session starts with

-----------------------------------------------------------------------------
(* Values *)

Undefined == "undefined"

Views == {"onboarding", "search", "result", "notebook", "flashcards",
          "scenario-menu", "scenario-chat", "scenario-report"}

LangPairs == {<<"English", "Spanish">>, <<"Chinese", "Japanese">>}

\* What the learner may type in the search box.
SearchInputs == {"hola", "Hola", "hola ", "  "}

\* What the learner may type in the question box of an entry.
AskInputs == {"why", " "}

\* What the learner may type in the roleplay input.
ChatInputs == {"si", " "}

\* String.prototype.trim on the inputs above.
Trim(s) ==
  CASE s = "  " -> ""
    [] s = " " -> ""
    [] s = "hola " -> "hola"
    [] OTHER -> s

\* String.prototype.toLowerCase on the inputs above.
ToLowerCase(s) ==
  CASE s = "Hola" -> "hola"
    [] OTHER -> s

\* An Oracle answer: the call rejects, or resolves with response.text.
OracleError == [kind |-> "error", text |-> ""]
OracleText(t) == [kind |-> "text", text |-> t]

\* The server before its first request.
NoRequest == [handler |-> "-", method |-> "-", body |-> "-", action |-> "-"]

\* No Oracle answer (a call still pending, or a step that received none).
NoAnswer == [kind |-> "none", text |-> ""]

\* What learner input a step handled.
Typed(t) == [kind |-> "input", text |-> t]

\* The record a step leaves of itself for the properties that are about its
\* input or the Oracle's answers: its name, and the input or answers it
\* handled.  A step no property needs to recognise leaves Quiet.
OpWith(name, x, y) == [op |-> name, a |-> x, b |-> y]
Quiet == OpWith("-", NoAnswer, NoAnswer)

\* A function's completion: it returned value, or it threw.
Returned(v) == [threw |-> FALSE, value |-> <<v>>]
Threw == [threw |-> TRUE, value |-> <<>>]

-----------------------------------------------------------------------------
(* JavaScript objects are records holding the fields that are present. *)

\* o.f : <<>> when the field is absent (undefined), <<value>> otherwise.
Get(o, f) == IF f \in DOMAIN o THEN <<o[f]>> ELSE <<>>

Example1 == [text |-> "Hola, amigo", phonetic |-> "o.la a.mi.go", translation |-> "Hi, friend"]
Example2 == [text |-> "Di hola", phonetic |-> "di o.la", translation |-> "Say hi"]

EnrichJson == "{targetTerm,phonetic,nativeDefinition,examples,usageNote}"
PartialJson == "{targetTerm}"
EmptyJson == "{}"
NotJson == "<html>"

ScenA == [id |-> "a", title |-> "Office", description |-> "At work", openingLine |-> "Buenos dias"]
ScenB == [id |-> "b", title |-> "Cafe", description |-> "Ordering", openingLine |-> "Que desea"]
ScenariosJson == "{scenarios:[a,b]}"
OneScenarioJson == "{scenarios:[b]}"

Correction1 == [original |-> "yo es", correction |-> "yo soy", explanation |-> "ser"]
ReportJson == "{score,feedback,corrections}"

\* JSON.parse on the texts the Oracle is given to answer with.
JSONparse(text) ==
  CASE text = EnrichJson ->
         Returned([targetTerm |-> "hola", phonetic |-> "o.la",
                   nativeDefinition |-> "a greeting",
                   examples |-> <<Example1, Example2>>, usageNote |-> "informal"])
    [] text = PartialJson -> Returned([targetTerm |-> "hola"])
    [] text = ScenariosJson -> Returned([scenarios |-> <<ScenA, ScenB>>])
    [] text = OneScenarioJson -> Returned([scenarios |-> <<ScenB>>])
    [] text = ReportJson ->
         Returned([score |-> 80, feedback |-> "Bien", corrections |-> <<Correction1>>])
    [] text = EmptyJson -> Returned([f \in {} |-> 0])
    [] OTHER -> Threw

\* The answers the Oracle may give to each kind of call.
EnrichAnswers == {OracleError, [kind |-> "nokey", text |-> ""], OracleText(""),
                  OracleText(NotJson), OracleText(PartialJson), OracleText(EnrichJson)}
ImageAnswers == {OracleError, [kind |-> "noimage", text |-> ""],
                 [kind |-> "image", text |-> "AAAA"]}
ReplyAnswers == {OracleError, OracleText(""), OracleText("Claro")}
AskAnswers == {OracleError, OracleText("Porque")}
EvalAnswers == {OracleError, OracleText(""), OracleText(NotJson), OracleText(ReportJson)}
ScenarioAnswers == {OracleError, OracleText(""), OracleText(NotJson),
                    OracleText(OneScenarioJson), OracleText(ScenariosJson)}

-----------------------------------------------------------------------------
(* services/geminiService.ts *)

\* (mutant) lookupTerm swallowing its errors as the other calls do.
lookupTermSwallowsErrors(a) ==
  IF a.kind \in {"nokey", "error"} \/ a.text = "" THEN Returned([f \in {} |-> 0])
  ELSE LET parsed == JSONparse(a.text)
       IN IF parsed.threw THEN Returned([f \in {} |-> 0]) ELSE parsed

\* lookupTerm: the parsed payload; throws without an API key, on an Oracle
\* error, on an empty text and on a text JSON.parse rejects.
lookupTerm(a) ==
  IF a.kind = "nokey" THEN Threw
  ELSE IF a.kind = "error" THEN Threw
  ELSE IF a.text = "" THEN Threw
  ELSE JSONparse(a.text)

\* (mutant) generateConceptImage without the test for an inlineData part.
generateConceptImageUnchecked(a) == "data:image/png;base64," \o a.text

\* generateConceptImage: a data URL, or undefined; never throws.
generateConceptImage(a) ==
  IF a.kind = "image" THEN "data:image/png;base64," \o a.text ELSE Undefined

\* (mutant) only the last two turns are sent.
promptLinesWindowed(hist) ==
  LET from == IF Len(hist) > 2 THEN Len(hist) - 1 ELSE 1
  IN [i \in 1..(Len(hist) - from + 1) |->
        hist[from + i - 1].role \o ": " \o hist[from + i - 1].text]

\* history.map(h => `${h.role}: ${h.text}`).join('\n'), as the lines joined:
\* the part of the prompt of chatInScenario and of evaluateScenario that
\* carries the conversation to the Oracle.
promptLines(hist) == [i \in 1..Len(hist) |-> hist[i].role \o ": " \o hist[i].text]

\* chatInScenario: the reply text, "..." when there is none; never throws.
chatInScenario(a) ==
  IF a.kind = "error" THEN "..."
  ELSE IF a.text = "" THEN "..." ELSE a.text

FallbackReport == [score |-> 0, feedback |-> "Could not evaluate session.", corrections |-> <<>>]

\* evaluateScenario: JSON.parse(response.text || "{}"), the fallback report
\* on any error; never throws.
evaluateScenario(a) ==
  IF a.kind = "error" THEN Returned(FallbackReport)
  ELSE LET parsed == JSONparse(IF a.text = "" THEN EmptyJson ELSE a.text)
       IN IF parsed.threw THEN Returned(FallbackReport) ELSE parsed

\* generateScenarios: json.scenarios || [], [] on any error; never throws.
generateScenarios(a) ==
  IF a.kind = "error" THEN <<>>
  ELSE LET parsed == JSONparse(IF a.text = "" THEN EmptyJson ELSE a.text)
       IN IF parsed.threw THEN <<>>
          ELSE IF Get(parsed.value[1], "scenarios") = <<>> THEN <<>>
          ELSE parsed.value[1].scenarios

-----------------------------------------------------------------------------
(* Mounting and unmounting that follow a change of view *)

\* App renders the bottom navigation (not on onboarding, in the full-screen
\* roleplay chat, on "Grading..." or on the report card).
NavVisible ==
  /\ view \notin {"onboarding", "scenario-chat"}
  /\ ~(view = "scenario-report" /\ (reportLoading \/ scenarioReport # <<>>))

\* App renders SearchHeader.
HeaderVisible == NavVisible /\ view \in {"search", "result", "notebook"}

\* Component instances are named so that an answer finds the instance that
\* asked; a name is free again once no call of its instance is in flight.
FreeNames(max, used) == (1..max) \ used
FreshName(max, used) ==
  CHOOSE n \in FreeNames(max, used) : \A m \in FreeNames(max, used) : n <= m
AwaitedSessions == {r.sid : r \in turnReqs \cup evalReqs}

\* ScenarioMenu is rendered only in view scenario-menu: entering the view
\* mounts a new one, whose effect calls loadScenarios; leaving it unmounts it.
MenuEffects(v) ==
  IF v = "scenario-menu"
  THEN IF view = "scenario-menu"
       THEN UNCHANGED <<scenarios, menuLoading, menuId, genReqs>>
       ELSE /\ FreeNames(MaxMenus, genReqs) # {}
            /\ scenarios' = <<>>
            /\ menuLoading' = TRUE
            /\ menuId' = FreshName(MaxMenus, genReqs)
            /\ genReqs' = genReqs \cup {FreshName(MaxMenus, genReqs)}
  ELSE /\ scenarios' = <<>>
       /\ menuLoading' = FALSE
       /\ menuId' = 0
       /\ UNCHANGED genReqs

\* (mutant) the history starts empty.
initialHistoryEmpty(scenario) == <<>>

\* The useState initial value of ScenarioChat's history.
initialHistory(scenario) == <<[role |-> "model", text |-> scenario.openingLine]>>

\* ScenarioChat is rendered only in view scenario-chat with a scenario.
ChatEffects(v, scenario) ==
  IF v = "scenario-chat" /\ scenario # <<>>
  THEN IF view = "scenario-chat"
       THEN UNCHANGED <<history, loading, sid>>
       ELSE /\ FreeNames(MaxSessions, AwaitedSessions) # {}
            /\ history' = initialHistory(scenario[1])
            /\ loading' = FALSE
            /\ sid' = FreshName(MaxSessions, AwaitedSessions)
  ELSE /\ history' = <<>>
       /\ loading' = FALSE
       /\ sid' = 0

\* setView(v), with the scenario App holds after the step.
SetView(v, scenario) ==
  /\ view' = v
  /\ MenuEffects(v)
  /\ ChatEffects(v, scenario)

\* ResultView is rendered only in view result (with the current entry, which
\* that view always has): entering the view mounts a new one, a step that
\* stays in it keeps the one mounted, whatever entry it is given.
\* The AudioButton of the term is mounted and unmounted with it.
ResultEffects ==
  IF view' = "result"
  THEN IF view = "result"
       THEN UNCHANGED <<chatHistory, isChatting, rvId, chatReqs, isPlaying, plays>>
       ELSE /\ FreeNames(MaxResults, {r.rv : r \in chatReqs \cup plays}) # {}
            /\ chatHistory' = <<>>
            /\ isChatting' = FALSE
            /\ isPlaying' = FALSE
            /\ rvId' = FreshName(MaxResults, {r.rv : r \in chatReqs \cup plays})
            /\ UNCHANGED <<chatReqs, plays>>
  ELSE /\ chatHistory' = <<>>
       /\ isChatting' = FALSE
       /\ isPlaying' = FALSE
       /\ rvId' = 0
       /\ UNCHANGED <<chatReqs, plays>>

askVars == <<chatHistory, isChatting, rvId, chatReqs>>
buttonVars == <<isPlaying, plays>>
deckVars == <<currentIndex, isFlipped, fvId, cardTimers, cardTrail>>
serverVars == <<apiReq, apiAwaiting, apiResponses, apiCalls>>

\* FlashcardsView is rendered only in view flashcards: entering the view
\* mounts a new one, on its first card and face up.
FlashEffects ==
  IF view' = "flashcards"
  THEN IF view = "flashcards"
       THEN UNCHANGED deckVars
       ELSE /\ FreeNames(MaxDecks, {cardTimers[i].fv : i \in DOMAIN cardTimers}) # {}
            /\ currentIndex' = 0
            /\ isFlipped' = FALSE
            /\ fvId' = FreshName(MaxDecks, {cardTimers[i].fv : i \in DOMAIN cardTimers})
            /\ cardTrail' = <<0>>
            /\ UNCHANGED cardTimers
  ELSE /\ currentIndex' = 0
       /\ isFlipped' = FALSE
       /\ fvId' = 0
       /\ cardTrail' = <<>>
       /\ UNCHANGED cardTimers

\* What a step of App does to the views that keep state of their own.
PageEffects == ResultEffects /\ FlashEffects
storeVars == <<persisted, madeUnder>>
audioVars == <<audioSupport, audioContext, contextsMade, tts, sources>>
searchVars == <<search, strayImages, now>>
entryVars == <<currentEntry, savedEntries, isSearching>>
menuVars == <<scenarios, menuLoading, menuId, genReqs>>
chatVars == <<history, loading, sid>>
viewVars == <<view, scenarios, menuLoading, menuId, genReqs, history, loading, sid>>

-----------------------------------------------------------------------------
(* App: onboarding and navigation *)

handleStart(pair) ==
  /\ view = "onboarding"
  /\ langs' = pair
  /\ SetView("search", activeScenario)
  /\ lastOp' = Quiet
  /\ UNCHANGED <<entryVars, searchVars, activeScenario, scenarioReport,
                 reportLoading, turnReqs, evalReqs>>
  /\ UNCHANGED <<storeVars, audioVars, serverVars>>
  /\ PageEffects

\* (mutant) the roleplay icon goes back into the chat of the scenario held.
NavTargetResumesChat(icon) ==
  IF icon = "search" THEN (IF currentEntry # <<>> THEN "result" ELSE "search")
  ELSE IF icon = "scenario-menu" /\ activeScenario # <<>> THEN "scenario-chat"
  ELSE icon

\* The view each bottom navigation icon sets.
NavTarget(icon) ==
  IF icon = "search" THEN (IF currentEntry # <<>> THEN "result" ELSE "search")
  ELSE icon

Nav(icon) ==
  /\ NavVisible
  /\ NavTarget(icon) # view
  /\ SetView(NavTarget(icon), activeScenario)
  /\ lastOp' = Quiet
  /\ UNCHANGED <<langs, entryVars, searchVars, activeScenario, scenarioReport,
                 reportLoading, turnReqs, evalReqs>>
  /\ UNCHANGED <<storeVars, audioVars, serverVars>>
  /\ PageEffects

-----------------------------------------------------------------------------
(* App: handleSearch and toggleSave *)

\* The fields of a DictEntry, and those the model holds as <<>> or <<value>>.
EntryFields == {"id", "term", "targetTerm", "phonetic", "nativeDefinition",
                "examples", "usageNote", "imageUrl", "createdAt"}
OptionalFields == {"targetTerm", "phonetic", "nativeDefinition", "examples", "usageNote"}

\* The field f of the entry e is undefined.
IsUndefined(e, f) ==
  IF f \in OptionalFields THEN e[f] = <<>>
  ELSE IF f = "imageUrl" THEN e[f] = Undefined
  ELSE FALSE

\* JSON.stringify(savedEntries): the entries in order, each with the fields
\* that are not undefined.
JSONstringifyNotebook(entries) ==
  [i \in 1..Len(entries) |->
     [f \in {g \in EntryFields : ~IsUndefined(entries[i], g)} |->
        IF f \in OptionalFields THEN entries[i][f][1] ELSE entries[i][f]]]

\* JSON.parse(saved), read as DictEntry[]: a field the text lacks is undefined.
JSONparseNotebook(text) ==
  [i \in 1..Len(text) |->
     [f \in EntryFields |->
        IF f \in DOMAIN text[i]
        THEN (IF f \in OptionalFields THEN <<text[i][f]>> ELSE text[i][f])
        ELSE (IF f \in OptionalFields THEN <<>> ELSE Undefined)]]

\* (mutant) the effect that writes the notebook does not run after the load.
persistedAfterMountStale(loaded) == <<JSONstringifyNotebook(<<>>)>>

\* The item after the two effects of the mount: the write effect first runs
\* with the initial empty list, then again with the list the load effect set.
persistedAfterMount(loaded) == <<JSONstringifyNotebook(loaded)>>

\* The language pairs of the saved entries, without those of the entries
\* that have the id.
RECURSIVE DropTags(_, _, _)
DropTags(entries, tags, id) ==
  IF entries = <<>> THEN <<>>
  ELSE (IF Head(entries).id = id THEN <<>> ELSE <<Head(tags)>>)
         \o DropTags(Tail(entries), Tail(tags), id)

\* The place of the entry e in the notebook.
IndexOf(e) ==
  CHOOSE i \in 1..Len(savedEntries) :
    /\ savedEntries[i] = e
    /\ \A j \in 1..Len(savedEntries) : savedEntries[j] = e => i <= j

\* (mutant) only the entries made under the current language pair are consulted.
findExistingSameLangs(term) ==
  LET hits == {i \in 1..Len(savedEntries) :
                 /\ ToLowerCase(savedEntries[i].term) = ToLowerCase(term)
                 /\ madeUnder.saved[i] = langs}
  IN IF hits = {} THEN <<>>
     ELSE <<savedEntries[CHOOSE i \in hits : \A j \in hits : i <= j]>>

\* (mutant) the notebook is never consulted.
findExistingNever(term) == <<>>

\* savedEntries.find(e => e.term.toLowerCase() === term.toLowerCase())
findExisting(term) ==
  LET hits == {i \in 1..Len(savedEntries) :
                 ToLowerCase(savedEntries[i].term) = ToLowerCase(term)}
  IN IF hits = {} THEN <<>>
     ELSE <<savedEntries[CHOOSE i \in hits : \A j \in hits : i <= j]>>

\* The DictEntry handleSearch assembles at Date.now() = t (its two reads of the
\* clock, for id and createdAt, fall in the same millisecond).
newEntry(term, textData, imageUrl, t) ==
  [id |-> ToString(t),
   term |-> term,
   targetTerm |-> Get(textData, "targetTerm"),
   phonetic |-> Get(textData, "phonetic"),
   nativeDefinition |-> Get(textData, "nativeDefinition"),
   examples |-> Get(textData, "examples"),
   usageNote |-> Get(textData, "usageNote"),
   imageUrl |-> imageUrl,
   createdAt |-> t]

\* SearchHeader.handleSubmit and handleSearch up to its await.
handleSearch(term) ==
  /\ HeaderVisible
  /\ ~isSearching
  /\ Trim(term) # ""
  /\ LET existing == findExisting(term)
     IN IF existing # <<>>
        THEN /\ currentEntry' = existing
             /\ SetView("result", activeScenario)
             /\ isSearching' = FALSE
             /\ lastOp' = OpWith("search-hit", Typed(term), NoAnswer)
             /\ madeUnder' =
                  [madeUnder EXCEPT !.cur = <<madeUnder.saved[IndexOf(existing[1])]>>]
             /\ UNCHANGED searchVars
        ELSE /\ strayImages < MaxStrays
             /\ isSearching' = TRUE
             /\ search' = <<[term |-> term, enrich |-> <<>>, image |-> <<>>,
                             enrichAnswer |-> NoAnswer, imageAnswer |-> NoAnswer]>>
             /\ lastOp' = Quiet
             /\ UNCHANGED <<currentEntry, viewVars, strayImages, now, madeUnder>>
  /\ UNCHANGED <<langs, savedEntries, activeScenario, scenarioReport,
                 reportLoading, turnReqs, evalReqs>>
  /\ UNCHANGED <<persisted, audioVars, serverVars>>
  /\ PageEffects

\* handleSearch after the await, Promise.all fulfilled.
handleSearchThen(term, textData, imageUrl, ea, ia) ==
  /\ currentEntry' = <<newEntry(term, textData, imageUrl, now)>>
  /\ SetView("result", activeScenario)
  /\ isSearching' = FALSE
  /\ search' = <<>>
  /\ lastOp' = OpWith("search-done", ea, ia)
  /\ madeUnder' = [madeUnder EXCEPT !.cur = <<langs>>]
  /\ UNCHANGED <<strayImages, now>>

\* (mutant) the catch block without the finally block.
handleSearchCatchOnly(ea, ia) ==
  /\ search' = <<>>
  /\ strayImages' = IF search[1].image = <<>> THEN strayImages + 1 ELSE strayImages
  /\ lastOp' = OpWith("search-failed", ea, ia)
  /\ UNCHANGED <<currentEntry, isSearching, viewVars, now, madeUnder>>

\* handleSearch after the await, Promise.all rejected: catch and finally.
handleSearchCatch(ea, ia) ==
  /\ isSearching' = FALSE
  /\ search' = <<>>
  /\ strayImages' = IF search[1].image = <<>> THEN strayImages + 1 ELSE strayImages
  /\ lastOp' = OpWith("search-failed", ea, ia)
  /\ UNCHANGED <<currentEntry, viewVars, now, madeUnder>>

\* lookupTerm settles.
EnrichReturns(a) ==
  /\ search # <<>>
  /\ search[1].enrich = <<>>
  /\ LET r == lookupTerm(a)
         s == search[1]
     IN IF r.threw
        THEN handleSearchCatch(a, s.imageAnswer)
        ELSE IF s.image = <<>>
        THEN /\ search' = <<[s EXCEPT !.enrich = r.value, !.enrichAnswer = a]>>
             /\ lastOp' = Quiet
             /\ UNCHANGED <<currentEntry, isSearching, viewVars, strayImages, now,
                            madeUnder>>
        ELSE handleSearchThen(s.term, r.value[1], s.image[1], a, s.imageAnswer)
  /\ UNCHANGED <<langs, savedEntries, activeScenario, scenarioReport,
                 reportLoading, turnReqs, evalReqs>>
  /\ UNCHANGED <<persisted, audioVars, serverVars>>
  /\ PageEffects

\* (mutant) the assembled entry is also written to the notebook.
ImageReturnsAutoSaves(a) ==
  /\ search # <<>>
  /\ search[1].image = <<>>
  /\ LET url == generateConceptImage(a)
         s == search[1]
     IN IF s.enrich = <<>>
        THEN /\ search' = <<[s EXCEPT !.image = <<url>>, !.imageAnswer = a]>>
             /\ lastOp' = Quiet
             /\ UNCHANGED <<currentEntry, savedEntries, persisted, isSearching,
                            viewVars, strayImages, now, madeUnder>>
        ELSE /\ handleSearchThen(s.term, s.enrich[1], url, s.enrichAnswer, a)
             /\ savedEntries' =
                  <<newEntry(s.term, s.enrich[1], url, now)>> \o savedEntries
             /\ persisted' = <<JSONstringifyNotebook(savedEntries')>>
  /\ UNCHANGED <<langs, activeScenario, scenarioReport,
                 reportLoading, turnReqs, evalReqs>>
  /\ UNCHANGED <<audioVars, serverVars>>
  /\ PageEffects

\* generateConceptImage settles, its Promise.all still pending.
ImageReturns(a) ==
  /\ search # <<>>
  /\ search[1].image = <<>>
  /\ LET url == generateConceptImage(a)
         s == search[1]
     IN IF s.enrich = <<>>
        THEN /\ search' = <<[s EXCEPT !.image = <<url>>, !.imageAnswer = a]>>
             /\ lastOp' = Quiet
             /\ UNCHANGED <<currentEntry, isSearching, viewVars, strayImages, now,
                            madeUnder>>
        ELSE handleSearchThen(s.term, s.enrich[1], url, s.enrichAnswer, a)
  /\ UNCHANGED <<langs, savedEntries, activeScenario, scenarioReport,
                 reportLoading, turnReqs, evalReqs>>
  /\ UNCHANGED <<persisted, audioVars, serverVars>>
  /\ PageEffects

\* generateConceptImage settles after its Promise.all was rejected.
StrayImageReturns(a) ==
  /\ strayImages > 0
  /\ strayImages' = strayImages - 1
  /\ lastOp' = Quiet
  /\ UNCHANGED <<langs, entryVars, viewVars, search, now, activeScenario,
                 scenarioReport, reportLoading, turnReqs, evalReqs>>
  /\ UNCHANGED <<storeVars, audioVars, serverVars>>
  /\ PageEffects

\* (mutant) an entry that is saved goes to the end of the notebook.
toggleSaveAppends ==
  /\ NavVisible
  /\ view = "result"
  /\ currentEntry # <<>>
  /\ LET cur == currentEntry[1]
         exists == \E i \in 1..Len(savedEntries) : savedEntries[i].id = cur.id
     IN savedEntries' =
          IF exists
          THEN SelectSeq(savedEntries, LAMBDA e : e.id # cur.id)
          ELSE savedEntries \o <<cur>>
  /\ persisted' = <<JSONstringifyNotebook(savedEntries')>>
  /\ madeUnder' =
       [madeUnder EXCEPT !.saved =
          IF \E i \in 1..Len(savedEntries) : savedEntries[i].id = currentEntry[1].id
          THEN DropTags(savedEntries, madeUnder.saved, currentEntry[1].id)
          ELSE madeUnder.saved \o madeUnder.cur]
  /\ lastOp' = Quiet
  /\ UNCHANGED <<langs, currentEntry, isSearching, viewVars, searchVars,
                 activeScenario, scenarioReport, reportLoading, turnReqs, evalReqs>>
  /\ UNCHANGED <<audioVars, serverVars>>
  /\ PageEffects

\* ResultView's save button: toggleSave, and the effect on savedEntries that
\* writes the list to localStorage.
toggleSave ==
  /\ NavVisible
  /\ view = "result"
  /\ currentEntry # <<>>
  /\ LET cur == currentEntry[1]
         exists == \E i \in 1..Len(savedEntries) : savedEntries[i].id = cur.id
     IN savedEntries' =
          IF exists
          THEN SelectSeq(savedEntries, LAMBDA e : e.id # cur.id)
          ELSE <<cur>> \o savedEntries
  /\ persisted' = <<JSONstringifyNotebook(savedEntries')>>
  /\ madeUnder' =
       [madeUnder EXCEPT !.saved =
          IF \E i \in 1..Len(savedEntries) : savedEntries[i].id = currentEntry[1].id
          THEN DropTags(savedEntries, madeUnder.saved, currentEntry[1].id)
          ELSE madeUnder.cur \o madeUnder.saved]
  /\ lastOp' = Quiet
  /\ UNCHANGED <<langs, currentEntry, isSearching, viewVars, searchVars,
                 activeScenario, scenarioReport, reportLoading, turnReqs, evalReqs>>
  /\ UNCHANGED <<audioVars, serverVars>>
  /\ PageEffects

-----------------------------------------------------------------------------
(* ScenarioMenu *)

\* The Refresh Scenarios button: loadScenarios up to its await.
loadScenarios ==
  /\ NavVisible
  /\ view = "scenario-menu"
  /\ ~menuLoading
  /\ menuLoading' = TRUE
  /\ genReqs' = genReqs \cup {menuId}
  /\ lastOp' = Quiet
  /\ UNCHANGED <<view, langs, entryVars, searchVars, scenarios, menuId, chatVars,
                 activeScenario, scenarioReport, reportLoading, turnReqs, evalReqs>>
  /\ UNCHANGED <<storeVars, audioVars, serverVars>>
  /\ PageEffects

\* loadScenarios after its await, for the ScenarioMenu numbered m.
ScenariosReturn(m, a) ==
  /\ m \in genReqs
  /\ genReqs' = genReqs \ {m}
  /\ IF view = "scenario-menu" /\ m = menuId
     THEN /\ scenarios' = generateScenarios(a)
          /\ menuLoading' = FALSE
          /\ lastOp' = OpWith("scenarios-loaded", a, NoAnswer)
     ELSE /\ lastOp' = Quiet
          /\ UNCHANGED <<scenarios, menuLoading>>
  /\ UNCHANGED <<view, langs, entryVars, searchVars, menuId, chatVars,
                 activeScenario, scenarioReport, reportLoading, turnReqs, evalReqs>>
  /\ UNCHANGED <<storeVars, audioVars, serverVars>>
  /\ PageEffects

\* (mutant) the cards can be clicked while loading.
onSelectWhileLoading(i) ==
  /\ NavVisible
  /\ view = "scenario-menu"
  /\ i \in 1..Len(scenarios)
  /\ activeScenario' = <<scenarios[i]>>
  /\ SetView("scenario-chat", <<scenarios[i]>>)
  /\ lastOp' = Quiet
  /\ UNCHANGED <<langs, entryVars, searchVars, scenarioReport, reportLoading,
                 turnReqs, evalReqs>>
  /\ UNCHANGED <<storeVars, audioVars, serverVars>>
  /\ PageEffects

\* A click on the i-th scenario card: App's onSelect.
onSelect(i) ==
  /\ NavVisible
  /\ view = "scenario-menu"
  /\ ~menuLoading
  /\ i \in 1..Len(scenarios)
  /\ activeScenario' = <<scenarios[i]>>
  /\ SetView("scenario-chat", <<scenarios[i]>>)
  /\ lastOp' = Quiet
  /\ UNCHANGED <<langs, entryVars, searchVars, scenarioReport, reportLoading,
                 turnReqs, evalReqs>>
  /\ UNCHANGED <<storeVars, audioVars, serverVars>>
  /\ PageEffects

-----------------------------------------------------------------------------
(* ResultView: the questions about an entry *)

\* chatWithAI: response.text, "" when there is none, a fixed sentence when
\* the call fails; never throws.
chatWithAI(a) ==
  IF a.kind = "error" THEN "I'm having trouble thinking right now." ELSE a.text

\* const displayTerm = entry.targetTerm || entry.term
displayTerm(entry) ==
  IF entry.targetTerm # <<>> /\ entry.targetTerm[1] # ""
  THEN entry.targetTerm[1] ELSE entry.term

\* (mutant) handleChatSubmit without the test of isChatting.
askAcceptsWhileChatting(input) == ~(Trim(input) = "")

\* handleChatSubmit goes on past its first line.
askAccepts(input) == ~(Trim(input) = "" \/ isChatting)

\* What no step of the question box changes.
askFrame == <<view, langs, entryVars, searchVars, menuVars, chatVars, activeScenario,
              scenarioReport, reportLoading, turnReqs, evalReqs, storeVars, audioVars,
              deckVars, serverVars>>

\* The form's submit: handleChatSubmit up to its await.  The call is given
\* the history of the render that submitted, and the question beside it.
handleChatSubmit(input) ==
  /\ view = "result"
  /\ IF askAccepts(input)
     THEN /\ Len(chatHistory) < 2 * MaxAsks
          /\ chatHistory' = Append(chatHistory, [role |-> "user", text |-> input])
          /\ isChatting' = TRUE
          /\ chatReqs' = chatReqs \cup
               {[rv |-> rvId, history |-> chatHistory, newMessage |-> input,
                 currentTerm |-> displayTerm(currentEntry[1])]}
          /\ lastOp' = OpWith("ask", Typed(input), NoAnswer)
     ELSE /\ lastOp' = OpWith("ask-rejected", Typed(input), NoAnswer)
          /\ UNCHANGED <<chatHistory, isChatting, chatReqs>>
  /\ UNCHANGED <<rvId, askFrame, buttonVars>>

\* handleChatSubmit after its await, for the request r: the answer is put
\* after whatever the chat holds by then; a ResultView that is gone takes
\* nothing.
ChatAnswerReturns(r, a) ==
  /\ r \in chatReqs
  /\ chatReqs' = chatReqs \ {r}
  /\ IF view = "result" /\ r.rv = rvId
     THEN /\ chatHistory' = Append(chatHistory, [role |-> "model", text |-> chatWithAI(a)])
          /\ isChatting' = FALSE
          /\ lastOp' = OpWith("answer", a, NoAnswer)
     ELSE /\ lastOp' = Quiet
          /\ UNCHANGED <<chatHistory, isChatting>>
  /\ UNCHANGED <<rvId, askFrame, buttonVars>>

-----------------------------------------------------------------------------
(* ScenarioChat *)

\* (mutant) send without the test of loading.
sendAcceptsWhileLoading(input) == ~(Trim(input) = "")

\* send goes on past its first line.
sendAccepts(input) == ~(Trim(input) = "" \/ loading)

\* const newHistory = [...history, { role: 'user', text: input }]
newHistory(input) == Append(history, [role |-> "user", text |-> input])

\* (mutant) the reply appended to the history of the render that sent, the
\* learner turn lost.
withReplyOnStaleHistory(sent, resp) ==
  Append(SubSeq(sent, 1, Len(sent) - 1), [role |-> "model", text |-> resp])

\* [...newHistory, { role: 'model', text: resp }]
withReply(sent, resp) == Append(sent, [role |-> "model", text |-> resp])

\* The chatInScenario call of the mounted ScenarioChat for the history hist.
turnRequest(hist) == [sid |-> sid, history |-> hist, prompt |-> promptLines(hist)]

\* (mutant) a submission made while loading is queued: its request is issued.
sendQueues(input) ==
  /\ view = "scenario-chat"
  /\ IF sendAccepts(input)
     THEN /\ Len(history) < MaxTurns
          /\ history' = newHistory(input)
          /\ loading' = TRUE
          /\ turnReqs' = turnReqs \cup {turnRequest(newHistory(input))}
          /\ lastOp' = OpWith("send", Typed(input), NoAnswer)
     ELSE /\ lastOp' = OpWith("send-rejected", Typed(input), NoAnswer)
          /\ turnReqs' = IF Trim(input) = "" THEN turnReqs
                         ELSE turnReqs \cup {turnRequest(newHistory(input))}
          /\ UNCHANGED <<history, loading>>
  /\ UNCHANGED <<view, langs, entryVars, searchVars, menuVars, sid, activeScenario,
                 scenarioReport, reportLoading, evalReqs>>
  /\ UNCHANGED <<storeVars, audioVars, serverVars>>
  /\ PageEffects

\* The form's submit: send up to its await.
send(input) ==
  /\ view = "scenario-chat"
  /\ IF sendAccepts(input)
     THEN /\ Len(history) < MaxTurns
          /\ history' = newHistory(input)
          /\ loading' = TRUE
          /\ turnReqs' = turnReqs \cup {turnRequest(newHistory(input))}
          /\ lastOp' = OpWith("send", Typed(input), NoAnswer)
     ELSE /\ lastOp' = OpWith("send-rejected", Typed(input), NoAnswer)
          /\ UNCHANGED <<history, loading, turnReqs>>
  /\ UNCHANGED <<view, langs, entryVars, searchVars, menuVars, sid, activeScenario,
                 scenarioReport, reportLoading, evalReqs>>
  /\ UNCHANGED <<storeVars, audioVars, serverVars>>
  /\ PageEffects

\* (mutant) a failed call appends no turn, as if chatInScenario threw.
ReplyReturnsDropsFailure(r, a) ==
  /\ r \in turnReqs
  /\ turnReqs' = turnReqs \ {r}
  /\ IF view = "scenario-chat" /\ r.sid = sid
     THEN /\ history' = IF a.kind = "error" THEN history
                        ELSE withReply(r.history, chatInScenario(a))
          /\ loading' = FALSE
          /\ lastOp' = OpWith("reply", a, NoAnswer)
     ELSE /\ lastOp' = Quiet
          /\ UNCHANGED <<history, loading>>
  /\ UNCHANGED <<view, langs, entryVars, searchVars, menuVars, sid, activeScenario,
                 scenarioReport, reportLoading, evalReqs>>
  /\ UNCHANGED <<storeVars, audioVars, serverVars>>
  /\ PageEffects

\* (mutant) a reply that finds its chat ended is added to the history that
\* is being evaluated.
ReplyReturnsIntoEvaluation(r, a) ==
  /\ r \in turnReqs
  /\ turnReqs' = turnReqs \ {r}
  /\ IF view = "scenario-chat" /\ r.sid = sid
     THEN /\ history' = withReply(r.history, chatInScenario(a))
          /\ loading' = FALSE
          /\ lastOp' = OpWith("reply", a, NoAnswer)
          /\ UNCHANGED evalReqs
     ELSE /\ lastOp' = Quiet
          /\ evalReqs' =
               {IF e.sid = r.sid
                THEN [e EXCEPT !.history = withReply(r.history, chatInScenario(a))]
                ELSE e : e \in evalReqs}
          /\ UNCHANGED <<history, loading>>
  /\ UNCHANGED <<view, langs, entryVars, searchVars, menuVars, sid, activeScenario,
                 scenarioReport, reportLoading>>
  /\ UNCHANGED <<storeVars, audioVars, serverVars>>
  /\ PageEffects

\* send after its await, for the request r.
ReplyReturns(r, a) ==
  /\ r \in turnReqs
  /\ turnReqs' = turnReqs \ {r}
  /\ IF view = "scenario-chat" /\ r.sid = sid
     THEN /\ history' = withReply(r.history, chatInScenario(a))
          /\ loading' = FALSE
          /\ lastOp' = OpWith("reply", a, NoAnswer)
     ELSE /\ lastOp' = Quiet
          /\ UNCHANGED <<history, loading>>
  /\ UNCHANGED <<view, langs, entryVars, searchVars, menuVars, sid, activeScenario,
                 scenarioReport, reportLoading, evalReqs>>
  /\ UNCHANGED <<storeVars, audioVars, serverVars>>
  /\ PageEffects

\* The evaluateScenario call onEnd makes for the history hist it is given.
evalRequest(hist) == [sid |-> sid, history |-> hist, prompt |-> promptLines(hist)]

\* (mutant) onEnd given the history without the turn still awaiting its reply.
onEndWithoutPendingTurn ==
  /\ view = "scenario-chat"
  /\ reportLoading' = TRUE
  /\ SetView("scenario-report", activeScenario)
  /\ evalReqs' = evalReqs \cup
       {evalRequest(IF loading THEN SubSeq(history, 1, Len(history) - 1) ELSE history)}
  /\ lastOp' = Quiet
  /\ UNCHANGED <<langs, entryVars, searchVars, activeScenario, scenarioReport,
                 turnReqs>>
  /\ UNCHANGED <<storeVars, audioVars, serverVars>>
  /\ PageEffects

\* The end session button: App's onEnd up to its await.
onEnd ==
  /\ view = "scenario-chat"
  /\ reportLoading' = TRUE
  /\ SetView("scenario-report", activeScenario)
  /\ evalReqs' = evalReqs \cup {evalRequest(history)}
  /\ lastOp' = Quiet
  /\ UNCHANGED <<langs, entryVars, searchVars, activeScenario, scenarioReport,
                 turnReqs>>
  /\ UNCHANGED <<storeVars, audioVars, serverVars>>
  /\ PageEffects

\* (mutant) onEnd after its await without the finally block.
EvaluationReturnsNoFinally(r, a) ==
  /\ r \in evalReqs
  /\ evalReqs' = evalReqs \ {r}
  /\ LET rep == evaluateScenario(a)
     IN IF rep.threw
        THEN /\ SetView("scenario-menu", activeScenario)
             /\ UNCHANGED scenarioReport
        ELSE /\ scenarioReport' = rep.value
             /\ UNCHANGED viewVars
  /\ lastOp' = OpWith("evaluated", a, NoAnswer)
  /\ UNCHANGED <<langs, entryVars, searchVars, activeScenario, turnReqs, reportLoading>>
  /\ UNCHANGED <<storeVars, audioVars, serverVars>>
  /\ PageEffects

\* onEnd after its await, for the request r.
EvaluationReturns(r, a) ==
  /\ r \in evalReqs
  /\ evalReqs' = evalReqs \ {r}
  /\ LET rep == evaluateScenario(a)
     IN IF rep.threw
        THEN /\ SetView("scenario-menu", activeScenario)
             /\ UNCHANGED scenarioReport
        ELSE /\ scenarioReport' = rep.value
             /\ UNCHANGED viewVars
  /\ reportLoading' = FALSE
  /\ lastOp' = OpWith("evaluated", a, NoAnswer)
  /\ UNCHANGED <<langs, entryVars, searchVars, activeScenario, turnReqs>>
  /\ UNCHANGED <<storeVars, audioVars, serverVars>>
  /\ PageEffects

\* ScenarioReportView's back button: onClose.  The view renders, and so has
\* a button, only for a report with corrections: report.corrections.map
\* throws for a report without.
onClose ==
  /\ view = "scenario-report"
  /\ ~reportLoading
  /\ scenarioReport # <<>>
  /\ "corrections" \in DOMAIN scenarioReport[1]
  /\ SetView("scenario-menu", activeScenario)
  /\ lastOp' = Quiet
  /\ UNCHANGED <<langs, entryVars, searchVars, activeScenario, scenarioReport,
                 reportLoading, turnReqs, evalReqs>>
  /\ UNCHANGED <<storeVars, audioVars, serverVars>>
  /\ PageEffects

-----------------------------------------------------------------------------
(* geminiService: text to speech *)

\* Everything but the audio pipeline and lastOp.
appVars == <<view, langs, currentEntry, savedEntries, isSearching, activeScenario,
             scenarioReport, reportLoading, search, strayImages, now,
             scenarios, menuLoading, menuId, genReqs, history, loading, sid,
             turnReqs, evalReqs, persisted, madeUnder,
             chatHistory, isChatting, rvId, chatReqs, isPlaying, plays,
             currentIndex, isFlipped, fvId, cardTimers, cardTrail>>

\* The slots of playTTS calls.
Calls == 1..MaxPlays

\* window.AudioContext || webkitAudioContext: there is none, there is one
\* whose constructor throws, or there is one that constructs.
AudioSupports == {"absent", "broken", "present"}

\* AudioContext.state of a context as it is constructed.
ContextStates == {"suspended", "running"}

SampleRate == 24000
SampleScale == 32768

\* inlineData.data as the Oracle may give it: the PCM bytes 00 00 FF 7F 00 80,
\* the bytes 01 02, three bytes, a text that is not base64, and white space.
AudioTexts == {"AAD/fwCA", "AQI=", "AAAA", "*", " "}

\* What the speech synthesis may answer: it fails, it has no inline data, or
\* it has some.
SynthAnswers ==
  {OracleError, [kind |-> "noaudio", text |-> ""]}
    \cup {[kind |-> "audio", text |-> t] : t \in AudioTexts}

\* The characters of the texts above, one by one.
Chars(text) ==
  CASE text = "AAD/fwCA" -> <<"A", "A", "D", "/", "f", "w", "C", "A">>
    [] text = "AQI=" -> <<"A", "Q", "I", "=">>
    [] text = "AAAA" -> <<"A", "A", "A", "A">>
    [] text = "*" -> <<"*">>
    [] text = " " -> <<" ">>
    [] OTHER -> <<>>

\* The base64 alphabet, in the order of the values 0..63.
Base64Alphabet ==
  <<"A", "B", "C", "D", "E", "F", "G", "H", "I", "J", "K", "L", "M",
    "N", "O", "P", "Q", "R", "S", "T", "U", "V", "W", "X", "Y", "Z",
    "a", "b", "c", "d", "e", "f", "g", "h", "i", "j", "k", "l", "m",
    "n", "o", "p", "q", "r", "s", "t", "u", "v", "w", "x", "y", "z",
    "0", "1", "2", "3", "4", "5", "6", "7", "8", "9", "+", "/">>

Base64Value(ch) ==
  (CHOOSE i \in 1..Len(Base64Alphabet) : Base64Alphabet[i] = ch) - 1

\* The bytes of base64 characters without padding: four characters give
\* three bytes, three left over give two, two left over give one.
RECURSIVE Base64Bytes(_)
Base64Bytes(cs) ==
  IF Len(cs) >= 4
  THEN LET n == Base64Value(cs[1]) * 262144 + Base64Value(cs[2]) * 4096
                  + Base64Value(cs[3]) * 64 + Base64Value(cs[4])
       IN <<n \div 65536, (n \div 256) % 256, n % 256>>
            \o Base64Bytes(SubSeq(cs, 5, Len(cs)))
  ELSE IF Len(cs) = 3
  THEN LET n == (Base64Value(cs[1]) * 4096 + Base64Value(cs[2]) * 64
                   + Base64Value(cs[3])) \div 4
       IN <<n \div 256, n % 256>>
  ELSE IF Len(cs) = 2
  THEN <<(Base64Value(cs[1]) * 64 + Base64Value(cs[2])) \div 16>>
  ELSE <<>>

\* window.atob: white space is dropped, then one or two padding characters of
\* a text whose length is a multiple of four; it throws for a length of 4k+1
\* and for a character outside the alphabet.  The binary string is given as
\* the sequence of its character codes.
atob(cs) ==
  LET text == SelectSeq(cs, LAMBDA ch : ch # " ")
      n == Len(text)
      data == IF n > 0 /\ n % 4 = 0 /\ text[n] = "="
              THEN (IF text[n - 1] = "=" THEN SubSeq(text, 1, n - 2)
                                         ELSE SubSeq(text, 1, n - 1))
              ELSE text
  IN IF \/ Len(data) % 4 = 1
        \/ \E i \in 1..Len(data) :
             \A j \in 1..Len(Base64Alphabet) : Base64Alphabet[j] # data[i]
     THEN Threw
     ELSE Returned(Base64Bytes(data))

\* (mutant) the two bytes of an element are read high byte first.
Int16BigEndian(lo, hi) ==
  LET u == hi + 256 * lo
  IN IF u >= 32768 THEN u - 65536 ELSE u

\* An element of new Int16Array(bytes.buffer): two bytes as a signed 16-bit
\* integer, low byte first (typed arrays read in the byte order of the
\* platform, which is little-endian wherever the app's browsers run).
Int16(lo, hi) ==
  LET u == lo + 256 * hi
  IN IF u >= 32768 THEN u - 65536 ELSE u

\* dataInt16[i] / 32768.0, as the fraction <<numerator, denominator>>: the
\* quotient of a 16-bit integer by 2^15 is exact in a Float32Array.
Sample(n) == <<n, SampleScale>>

\* decodeAudioData: the completion of its promise.  new Int16Array throws a
\* RangeError for a buffer of odd length, ctx.createBuffer throws for a
\* length of zero frames.
decodeAudioData(base64String) ==
  LET binaryString == atob(Chars(base64String))
  IN IF binaryString.threw THEN Threw
     ELSE LET bytes == [i \in 1..Len(binaryString.value[1]) |->
                          binaryString.value[1][i] % 256]
          IN IF Len(bytes) % 2 # 0 THEN Threw
             ELSE IF Len(bytes) \div 2 = 0 THEN Threw
             ELSE Returned([numberOfChannels |-> 1,
                            length |-> Len(bytes) \div 2,
                            sampleRate |-> SampleRate,
                            channelData |->
                              [i \in 1..(Len(bytes) \div 2) |->
                                 Sample(Int16(bytes[2 * i - 1], bytes[2 * i]))]])

\* A playTTS slot with no call.
IdleCall == [stage |-> "idle", data |-> "", decoded |-> <<>>, result |-> "-"]

\* A call awaiting the step named by stage.
Awaiting(stage, data, decoded) ==
  [stage |-> stage, data |-> data, decoded |-> decoded, result |-> "-"]

\* (mutant) the catch block throws the error on.
catchTTSRethrows(call) == [call EXCEPT !.stage = "done", !.result = "threw"]

\* playTTS's catch block: the error is logged and the call returns.
catchTTS(call) == [call EXCEPT !.stage = "done", !.result = "returned"]

\* playTTS returns from its try block.
returnTTS(call) == [call EXCEPT !.stage = "done", !.result = "returned"]

\* (mutant) every call constructs a context of its own.
getAudioContextAfresh(state) ==
  CASE audioSupport = "absent" ->
         [ctx |-> audioContext, made |-> contextsMade, threw |-> FALSE]
    [] audioSupport = "broken" ->
         [ctx |-> audioContext, made |-> contextsMade, threw |-> TRUE]
    [] OTHER ->
         [ctx |-> <<[id |-> contextsMade + 1, state |-> state]>>,
          made |-> contextsMade + 1, threw |-> FALSE]

\* getAudioContext: the module's context, constructed (in the given state)
\* if there is none yet and the platform has the class; what the module
\* variable holds afterwards, how many contexts exist, and whether the
\* constructor threw.
getAudioContext(state) ==
  IF audioContext # <<>>
  THEN [ctx |-> audioContext, made |-> contextsMade, threw |-> FALSE]
  ELSE CASE audioSupport = "absent" ->
              [ctx |-> <<>>, made |-> contextsMade, threw |-> FALSE]
         [] audioSupport = "broken" ->
              [ctx |-> <<>>, made |-> contextsMade, threw |-> TRUE]
         [] OTHER ->
              [ctx |-> <<[id |-> contextsMade + 1, state |-> state]>>,
               made |-> contextsMade + 1, threw |-> FALSE]

\* (mutant) starting a source stops the sources that play.
startSourceReplacing(c, buffer) ==
  {[call |-> c, ctx |-> audioContext[1].id, buffer |-> buffer]}

\* createBufferSource, connect and start: one more source plays.
startSource(c, buffer) ==
  sources \cup {[call |-> c, ctx |-> audioContext[1].id, buffer |-> buffer]}

\* playTTS up to its first await: the request for speech is sent.  (The text
\* to speak is not kept: no step depends on it.)
playTTS(c) ==
  /\ tts[c].stage = "idle"
  /\ tts' = [tts EXCEPT ![c] = Awaiting("synth", "", <<>>)]
  /\ lastOp' = Quiet
  /\ UNCHANGED <<appVars, serverVars, audioSupport, audioContext, contextsMade, sources>>

\* generateContent settles with a.  Without audio data the call is over;
\* with it the context is got and, if suspended, resumed; otherwise
\* decodeAudioData runs and the call awaits its promise.
SynthReturns(c, a, state) ==
  /\ tts[c].stage = "synth"
  /\ lastOp' = Quiet
  /\ UNCHANGED <<appVars, serverVars, audioSupport, sources>>
  /\ IF a.kind # "audio" \/ a.text = ""
     THEN /\ tts' = [tts EXCEPT ![c] = catchTTS(tts[c])]
          /\ UNCHANGED <<audioContext, contextsMade>>
     ELSE LET got == getAudioContext(state)
          IN /\ audioContext' = got.ctx
             /\ contextsMade' = got.made
             /\ tts' =
                  [tts EXCEPT ![c] =
                     IF got.threw THEN catchTTS(Awaiting("synth", a.text, <<>>))
                     ELSE IF got.ctx = <<>>
                     THEN returnTTS(Awaiting("synth", a.text, <<>>))
                     ELSE IF got.ctx[1].state = "suspended"
                     THEN Awaiting("resume", a.text, <<>>)
                     ELSE Awaiting("decode", a.text, <<decodeAudioData(a.text)>>)]

\* ctx.resume() settles: the context runs and decodeAudioData is called, or
\* the promise rejected.
ResumeReturns(c, resumed) ==
  /\ tts[c].stage = "resume"
  /\ lastOp' = Quiet
  /\ UNCHANGED <<appVars, serverVars, audioSupport, contextsMade, sources>>
  /\ IF resumed
     THEN /\ audioContext' = <<[audioContext[1] EXCEPT !.state = "running"]>>
          /\ tts' = [tts EXCEPT ![c] =
                       Awaiting("decode", tts[c].data, <<decodeAudioData(tts[c].data)>>)]
     ELSE /\ tts' = [tts EXCEPT ![c] = catchTTS(tts[c])]
          /\ UNCHANGED audioContext

\* The promise of decodeAudioData settles: a source is started on the buffer,
\* or the error is caught.
DecodeReturns(c) ==
  /\ tts[c].stage = "decode"
  /\ lastOp' = Quiet
  /\ UNCHANGED <<appVars, serverVars, audioSupport, audioContext, contextsMade>>
  /\ IF tts[c].decoded[1].threw
     THEN /\ tts' = [tts EXCEPT ![c] = catchTTS(tts[c])]
          /\ UNCHANGED sources
     ELSE /\ sources' = startSource(c, tts[c].decoded[1].value[1])
          /\ tts' = [tts EXCEPT ![c] = returnTTS(tts[c])]

\* The caller has the call's outcome and the stream it started, if any, has
\* played to its end.
PlaybackEnds(c) ==
  /\ tts[c].stage = "done"
  /\ \A p \in plays : ~(p.call = c /\ p.stage = "tts")
  /\ tts' = [tts EXCEPT ![c] = IdleCall]
  /\ sources' = {s \in sources : s.call # c}
  /\ lastOp' = Quiet
  /\ UNCHANGED <<appVars, serverVars, audioSupport, audioContext, contextsMade>>

-----------------------------------------------------------------------------
(* FlashcardsView *)

\* What no step of the flashcards changes.
deckFrame == <<view, langs, entryVars, searchVars, menuVars, chatVars, activeScenario,
               scenarioReport, reportLoading, turnReqs, evalReqs, storeVars, askVars,
               buttonVars, audioVars, serverVars>>

\* With an empty notebook the view renders nothing.
DeckShown == view = "flashcards" /\ savedEntries # <<>>

\* The timeouts of the mounted view that have not fired.
OwnTimers == {i \in DOMAIN cardTimers : cardTimers[i].fv = fvId}

\* (mutant) the index goes on without wrapping.
advanceUnwrapped(prev, length) == prev + 1

\* setCurrentIndex's updater in nextCard.
advance(prev, length) == (prev + 1) % length

\* A click on the card: setIsFlipped(!isFlipped).
flip ==
  /\ DeckShown
  /\ isFlipped' = ~isFlipped
  /\ lastOp' = Quiet
  /\ UNCHANGED <<currentIndex, fvId, cardTimers, cardTrail, deckFrame>>

\* A click on Next: the card is turned face up and the advance is scheduled,
\* with the length of the notebook this render was given.
nextCard ==
  /\ DeckShown
  /\ Len(cardTrail) + Cardinality(OwnTimers) <= MaxNexts
  /\ isFlipped' = FALSE
  /\ cardTimers' = Append(cardTimers, [fv |-> fvId, length |-> Len(savedEntries)])
  /\ lastOp' = OpWith("next", NoAnswer, NoAnswer)
  /\ UNCHANGED <<currentIndex, fvId, cardTrail, deckFrame>>

\* The oldest timeout fires: the updater runs on the state of the view that
\* scheduled it, if it is still mounted.
CardTimerFires ==
  /\ cardTimers # <<>>
  /\ cardTimers' = Tail(cardTimers)
  /\ IF view = "flashcards" /\ Head(cardTimers).fv = fvId
     THEN /\ currentIndex' = advance(currentIndex, Head(cardTimers).length)
          /\ cardTrail' = Append(cardTrail, currentIndex')
          /\ lastOp' = OpWith("advance", NoAnswer, NoAnswer)
     ELSE /\ lastOp' = Quiet
          /\ UNCHANGED <<currentIndex, cardTrail>>
  /\ UNCHANGED <<isFlipped, fvId, deckFrame>>

-----------------------------------------------------------------------------
(* AudioButton *)

\* The slot handlePlay's call of playTTS takes.
FreeCalls == {c \in Calls : tts[c].stage = "idle"}

\* What no step of the button changes.
playFrame == <<view, langs, entryVars, searchVars, menuVars, chatVars, activeScenario,
               scenarioReport, reportLoading, turnReqs, evalReqs, storeVars, askVars,
               audioSupport, audioContext, contextsMade, sources, deckVars, serverVars>>

\* A click on the button: handlePlay up to its await.  While isPlaying it
\* returns at once; otherwise isPlaying is set and playTTS is called.
handlePlay ==
  /\ view = "result"
  /\ IF isPlaying
     THEN /\ lastOp' = OpWith("play-rejected", NoAnswer, NoAnswer)
          /\ UNCHANGED <<isPlaying, plays, tts>>
     ELSE /\ FreeCalls # {}
          /\ LET c == CHOOSE c \in FreeCalls : \A d \in FreeCalls : c <= d
             IN /\ tts' = [tts EXCEPT ![c] = Awaiting("synth", "", <<>>)]
                /\ plays' = plays \cup {[rv |-> rvId, call |-> c, stage |-> "tts"]}
          /\ isPlaying' = TRUE
          /\ lastOp' = OpWith("play", NoAnswer, NoAnswer)
  /\ UNCHANGED playFrame

\* handlePlay after its await: playTTS has returned (it never throws) and
\* the reset is scheduled with setTimeout.
PlayReturns(p) ==
  /\ p \in plays
  /\ p.stage = "tts"
  /\ tts[p.call].stage = "done"
  /\ plays' = (plays \ {p}) \cup {[p EXCEPT !.stage = "timer"]}
  /\ lastOp' = Quiet
  /\ UNCHANGED <<isPlaying, tts, playFrame>>

\* (mutant) the timeout's callback does nothing.
TimerFiresIdly(p) ==
  /\ p \in plays
  /\ p.stage = "timer"
  /\ plays' = plays \ {p}
  /\ lastOp' = Quiet
  /\ UNCHANGED <<isPlaying, tts, playFrame>>

\* The timeout fires: setIsPlaying(false), which a button that is gone
\* does not take.
TimerFires(p) ==
  /\ p \in plays
  /\ p.stage = "timer"
  /\ plays' = plays \ {p}
  /\ isPlaying' = IF view = "result" /\ p.rv = rvId THEN FALSE ELSE isPlaying
  /\ lastOp' = Quiet
  /\ UNCHANGED <<tts, playFrame>>

-----------------------------------------------------------------------------
(* The server: the handlers of /api *)

Handlers == {"lookup", "image", "tts", "story", "chat", "scenario"}
Methods == {"POST", "GET"}

\* req.body: there is none, it is {} but for the action, or it has every
\* field the handler reads, of the type it reads it as.
Bodies == {"undefined", "empty", "full"}

\* body.action of a request to the scenario handler; "-" is none.
ScenarioActions == {"generate", "chat", "evaluate", "dance", "-"}

Requests ==
  {r \in [handler : Handlers, method : Methods, body : Bodies, action : ScenarioActions] :
     r.action # "-" => (r.handler = "scenario" /\ r.body # "undefined")}

\* What generateContent may settle with on the server: it rejects, or its
\* response has a text that is JSON, a text that is not, nothing at all, or
\* an inlineData part.
ServerAnswers ==
  {[kind |-> "error", text |-> "quota exceeded"],
   [kind |-> "text", text |-> EmptyJson],
   [kind |-> "text", text |-> NotJson],
   [kind |-> "none", text |-> ""],
   [kind |-> "media", text |-> "AQI="]}

\* res.status(status).json(...): error is the message of { error }, "" when
\* the payload is not an error.
Response(status, error) == [status |-> status, error |-> error]

\* What a handler has done when it returns or suspends.
Responded(response) ==
  [responses |-> <<response>>, calls |-> 0, awaiting |-> FALSE, threw |-> FALSE]
Calling == [responses |-> <<>>, calls |-> 1, awaiting |-> TRUE, threw |-> FALSE]

\* The catch block of a handler.
catchHandler(message) == Responded(Response(500, message))

\* (mutant) the handlers without their first line.
methodAllowedAny(method) == TRUE

\* The first line of every handler.
methodAllowed(method) == method = "POST"

\* The handler reads a property of a field the body does not have, before
\* it calls the Oracle: words.join, context.currentTerm, scenario.title,
\* history.map.
ReadsMissingField(r) ==
  /\ r.body = "empty"
  /\ \/ r.handler \in {"story", "chat"}
     \/ r.handler = "scenario" /\ r.action \in {"chat", "evaluate"}

\* A handler up to its await.
handler(r) ==
  IF ~methodAllowed(r.method) THEN Responded(Response(405, "Method Not Allowed"))
  ELSE IF r.body = "undefined" THEN catchHandler("TypeError")
  ELSE IF r.handler = "scenario" /\ r.action \notin {"generate", "chat", "evaluate"}
  THEN Responded(Response(400, "Invalid action"))
  ELSE IF ReadsMissingField(r) THEN catchHandler("TypeError")
  ELSE Calling

\* The handler answers with JSON.parse(response.text).
ParsesText(r) ==
  r.handler = "lookup" \/ (r.handler = "scenario" /\ r.action \in {"generate", "evaluate"})

\* A handler after its await: the response it sends on the Oracle's answer.
handlerThen(r, a) ==
  IF a.kind = "error" THEN Response(500, a.text)
  ELSE IF ParsesText(r)
  THEN (IF a.kind = "text" /\ ~JSONparse(a.text).threw
        THEN Response(200, "") ELSE Response(500, "SyntaxError"))
  ELSE IF r.handler = "image"
  THEN (IF a.kind = "media" THEN Response(200, "") ELSE Response(500, "No image generated"))
  ELSE IF r.handler = "tts"
  THEN (IF a.kind = "media" THEN Response(200, "") ELSE Response(500, "No audio returned"))
  ELSE Response(200, "")

\* wrap: a handler that threw without answering is answered for.
wrap(outcome) ==
  IF outcome.threw /\ outcome.responses = <<>>
  THEN [outcome EXCEPT !.responses = <<Response(500, "Internal Server Error")>>,
                       !.awaiting = FALSE, !.threw = FALSE]
  ELSE outcome

\* A request arrives and its handler runs up to its await.
Receive(r) ==
  /\ ~apiAwaiting
  /\ apiReq' = r
  /\ apiResponses' = wrap(handler(r)).responses
  /\ apiCalls' = wrap(handler(r)).calls
  /\ apiAwaiting' = wrap(handler(r)).awaiting
  /\ lastOp' = OpWith("received", NoAnswer, NoAnswer)
  /\ UNCHANGED <<appVars, audioVars>>

\* The Oracle settles the handler's call with a.
OracleAnswers(a) ==
  /\ apiAwaiting
  /\ apiResponses' = Append(apiResponses, handlerThen(apiReq, a))
  /\ apiAwaiting' = FALSE
  /\ lastOp' = OpWith("served", a, NoAnswer)
  /\ UNCHANGED <<apiReq, apiCalls, appVars, audioVars>>

-----------------------------------------------------------------------------
(* The state machine *)

\* The page after its first load, but for the platform's audio: nothing was
\* persisted, and the write effect of the mount has written the empty list.
InitApp ==
  /\ view = "onboarding"
  /\ langs = <<"English", "Spanish">>
  /\ currentEntry = <<>>
  /\ savedEntries = <<>>
  /\ isSearching = FALSE
  /\ activeScenario = <<>>
  /\ scenarioReport = <<>>
  /\ reportLoading = FALSE
  /\ search = <<>>
  /\ strayImages = 0
  /\ now = 0
  /\ scenarios = <<>>
  /\ menuLoading = FALSE
  /\ menuId = 0
  /\ genReqs = {}
  /\ history = <<>>
  /\ loading = FALSE
  /\ sid = 0
  /\ turnReqs = {}
  /\ evalReqs = {}
  /\ persisted = <<JSONstringifyNotebook(<<>>)>>
  /\ madeUnder = [cur |-> <<>>, saved |-> <<>>]
  /\ audioContext = <<>>
  /\ contextsMade = 0
  /\ tts = [c \in 1..MaxPlays |-> IdleCall]
  /\ sources = {}
  /\ chatHistory = <<>>
  /\ isChatting = FALSE
  /\ rvId = 0
  /\ chatReqs = {}
  /\ isPlaying = FALSE
  /\ plays = {}
  /\ currentIndex = 0
  /\ isFlipped = FALSE
  /\ fvId = 0
  /\ cardTimers = <<>>
  /\ cardTrail = <<>>
  /\ apiReq = NoRequest
  /\ apiAwaiting = FALSE
  /\ apiResponses = <<>>
  /\ apiCalls = 0
  /\ lastOp = Quiet

\* The app on a platform that has audio.
Init == InitApp /\ audioSupport = "present"

\* The app on any platform.
InitAudio == InitApp /\ audioSupport \in AudioSupports

\* The result page of "hola", looked up from English to Spanish with no
\* picture, on a platform that has audio: what handleStart, handleSearch and
\* the two answers of that lookup leave.
InitResult ==
  /\ view = "result"
  /\ langs = <<"English", "Spanish">>
  /\ currentEntry =
       <<newEntry("hola", lookupTerm(OracleText(EnrichJson)).value[1],
                  generateConceptImage(OracleError), 0)>>
  /\ savedEntries = <<>>
  /\ isSearching = FALSE
  /\ activeScenario = <<>>
  /\ scenarioReport = <<>>
  /\ reportLoading = FALSE
  /\ search = <<>>
  /\ strayImages = 0
  /\ now = 0
  /\ scenarios = <<>>
  /\ menuLoading = FALSE
  /\ menuId = 0
  /\ genReqs = {}
  /\ history = <<>>
  /\ loading = FALSE
  /\ sid = 0
  /\ turnReqs = {}
  /\ evalReqs = {}
  /\ persisted = <<JSONstringifyNotebook(<<>>)>>
  /\ madeUnder = [cur |-> <<<<"English", "Spanish">>>>, saved |-> <<>>]
  /\ audioSupport = "present"
  /\ audioContext = <<>>
  /\ contextsMade = 0
  /\ tts = [c \in 1..MaxPlays |-> IdleCall]
  /\ sources = {}
  /\ chatHistory = <<>>
  /\ isChatting = FALSE
  /\ rvId = 1
  /\ chatReqs = {}
  /\ isPlaying = FALSE
  /\ plays = {}
  /\ currentIndex = 0
  /\ isFlipped = FALSE
  /\ fvId = 0
  /\ cardTimers = <<>>
  /\ cardTrail = <<>>
  /\ apiReq = NoRequest
  /\ apiAwaiting = FALSE
  /\ apiResponses = <<>>
  /\ apiCalls = 0
  /\ lastOp = OpWith("search-done", OracleText(EnrichJson), OracleError)

\* The terms of the entries a notebook was filled with, in the order saved.
DeckTerm(i) == CASE i = 1 -> "hola" [] i = 2 -> "adios" [] OTHER -> "Hola"

\* The notebook after k lookups without picture, a millisecond apart, each
\* saved: the last one first.
SavedBefore(k) ==
  [i \in 1..k |->
     newEntry(DeckTerm(k - i + 1), lookupTerm(OracleText(EnrichJson)).value[1],
              generateConceptImage(OracleError), k - i)]

\* The page loaded over the notebook an earlier visit left in localStorage:
\* what Reload leaves after that visit saved k entries.
InitDeck ==
  \E k \in 0..MaxSaved :
    /\ view = "onboarding"
    /\ langs = <<"English", "Spanish">>
    /\ currentEntry = <<>>
    /\ savedEntries = JSONparseNotebook(JSONstringifyNotebook(SavedBefore(k)))
    /\ isSearching = FALSE
    /\ activeScenario = <<>>
    /\ scenarioReport = <<>>
    /\ reportLoading = FALSE
    /\ search = <<>>
    /\ strayImages = 0
    /\ now = IF k = 0 THEN 0 ELSE k - 1
    /\ scenarios = <<>>
    /\ menuLoading = FALSE
    /\ menuId = 0
    /\ genReqs = {}
    /\ history = <<>>
    /\ loading = FALSE
    /\ sid = 0
    /\ turnReqs = {}
    /\ evalReqs = {}
    /\ persisted = <<JSONstringifyNotebook(savedEntries)>>
    /\ madeUnder = [cur |-> <<>>, saved |-> [i \in 1..k |-> <<"English", "Spanish">>]]
    /\ audioSupport = "present"
    /\ audioContext = <<>>
    /\ contextsMade = 0
    /\ tts = [c \in 1..MaxPlays |-> IdleCall]
    /\ sources = {}
    /\ chatHistory = <<>>
    /\ isChatting = FALSE
    /\ rvId = 0
    /\ chatReqs = {}
    /\ isPlaying = FALSE
    /\ plays = {}
    /\ currentIndex = 0
    /\ isFlipped = FALSE
    /\ fvId = 0
    /\ cardTimers = <<>>
    /\ cardTrail = <<>>
    /\ apiReq = NoRequest
    /\ apiAwaiting = FALSE
    /\ apiResponses = <<>>
    /\ apiCalls = 0
    /\ lastOp = OpWith("reload", NoAnswer, NoAnswer)

\* A millisecond passes.
Tick ==
  /\ now < MaxTime
  /\ now' = now + 1
  /\ lastOp' = Quiet
  /\ UNCHANGED <<langs, entryVars, viewVars, search, strayImages,
                 activeScenario, scenarioReport, reportLoading, turnReqs, evalReqs>>
  /\ UNCHANGED <<storeVars, audioVars, serverVars>>
  /\ PageEffects

\* The page is loaded again over what localStorage holds: every state cell
\* and the module's audio context start afresh, the calls of the page left
\* are gone, the load effect reads the notebook and the write effect runs.
Reload ==
  /\ view' = "onboarding"
  /\ langs' = <<"English", "Spanish">>
  /\ currentEntry' = <<>>
  /\ savedEntries' = IF persisted = <<>> THEN <<>> ELSE JSONparseNotebook(persisted[1])
  /\ persisted' = persistedAfterMount(savedEntries')
  /\ madeUnder' = [madeUnder EXCEPT !.cur = <<>>]
  /\ isSearching' = FALSE
  /\ activeScenario' = <<>>
  /\ scenarioReport' = <<>>
  /\ reportLoading' = FALSE
  /\ search' = <<>>
  /\ strayImages' = 0
  /\ scenarios' = <<>>
  /\ menuLoading' = FALSE
  /\ menuId' = 0
  /\ genReqs' = {}
  /\ history' = <<>>
  /\ loading' = FALSE
  /\ sid' = 0
  /\ turnReqs' = {}
  /\ evalReqs' = {}
  /\ audioContext' = <<>>
  /\ contextsMade' = 0
  /\ tts' = [c \in 1..MaxPlays |-> IdleCall]
  /\ sources' = {}
  /\ chatHistory' = <<>>
  /\ isChatting' = FALSE
  /\ rvId' = 0
  /\ chatReqs' = {}
  /\ isPlaying' = FALSE
  /\ plays' = {}
  /\ currentIndex' = 0
  /\ isFlipped' = FALSE
  /\ fvId' = 0
  /\ cardTimers' = <<>>
  /\ cardTrail' = <<>>
  /\ lastOp' = OpWith("reload", NoAnswer, NoAnswer)
  /\ UNCHANGED <<now, audioSupport, serverVars>>

Next ==
  \/ Tick
  \/ Reload
  \/ \E input \in AskInputs : handleChatSubmit(input)
  \/ \E r \in chatReqs, a \in AskAnswers : ChatAnswerReturns(r, a)
  \/ handlePlay
  \/ \E p \in plays : PlayReturns(p)
  \/ \E p \in plays : TimerFires(p)
  \/ flip
  \/ nextCard
  \/ CardTimerFires
  \/ \E r \in Requests : Receive(r)
  \/ \E a \in ServerAnswers : OracleAnswers(a)
  \/ \E c \in Calls : playTTS(c)
  \/ \E c \in Calls, a \in SynthAnswers, state \in ContextStates : SynthReturns(c, a, state)
  \/ \E c \in Calls, resumed \in BOOLEAN : ResumeReturns(c, resumed)
  \/ \E c \in Calls : DecodeReturns(c)
  \/ \E c \in Calls : PlaybackEnds(c)
  \/ \E pair \in LangPairs : handleStart(pair)
  \/ \E icon \in {"search", "scenario-menu", "notebook", "flashcards"} : Nav(icon)
  \/ \E term \in SearchInputs : handleSearch(term)
  \/ \E a \in EnrichAnswers : EnrichReturns(a)
  \/ \E a \in ImageAnswers : ImageReturns(a)
  \/ \E a \in ImageAnswers : StrayImageReturns(a)
  \/ toggleSave
  \/ loadScenarios
  \/ \E m \in genReqs, a \in ScenarioAnswers : ScenariosReturn(m, a)
  \/ \E i \in 1..Len(scenarios) : onSelect(i)
  \/ \E input \in ChatInputs : send(input)
  \/ \E r \in turnReqs, a \in ReplyAnswers : ReplyReturns(r, a)
  \/ onEnd
  \/ \E r \in evalReqs, a \in EvalAnswers : EvaluationReturns(r, a)
  \/ onClose

\* The whole application.  Its reachable states are the product of those of
\* the entry resolver, of the roleplay and of the calls in flight, so it is
\* explored part by part, under the three specifications below.
Spec == Init /\ [][Next]_vars

\* The entry resolver and the notebook, the roleplay views left aside.
NextResolver ==
  \/ Tick
  \/ \E pair \in LangPairs : handleStart(pair)
  \/ \E icon \in {"search", "notebook", "flashcards"} : Nav(icon)
  \/ \E term \in {"hola", "Hola", "  "} : handleSearch(term)
  \/ \E a \in EnrichAnswers : EnrichReturns(a)
  \/ \E a \in ImageAnswers : ImageReturns(a)
  \/ \E a \in ImageAnswers : StrayImageReturns(a)
  \/ toggleSave

SpecResolver == Init /\ [][NextResolver]_vars

\* The entry resolver when every call to the Oracle settles.
SpecResolverFair ==
  /\ SpecResolver
  /\ WF_vars(\E a \in EnrichAnswers : EnrichReturns(a))
  /\ WF_vars(\E a \in ImageAnswers : ImageReturns(a))

\* The notebook as a cache of the resolver: every input of the search box,
\* one language pair, and of the Oracle's answers a failure, a payload that
\* lacks fields, a full payload, and an image or none.
NextNotebook ==
  \/ Tick
  \/ \E pair \in {<<"English", "Spanish">>} : handleStart(pair)
  \/ \E icon \in {"search", "notebook"} : Nav(icon)
  \/ \E term \in SearchInputs : handleSearch(term)
  \/ \E a \in {OracleError, OracleText(PartialJson), OracleText(EnrichJson)} :
       EnrichReturns(a)
  \/ \E a \in {OracleError, [kind |-> "image", text |-> "AAAA"]} : ImageReturns(a)
  \/ \E a \in {OracleError} : StrayImageReturns(a)
  \/ toggleSave

SpecNotebook == Init /\ [][NextNotebook]_vars

\* The notebook across page loads: both language pairs, two terms, one of
\* them in two spellings, the Oracle's full payload with an image or none,
\* saving and reloading.
NextStorage ==
  \/ Tick
  \/ Reload
  \/ \E pair \in LangPairs : handleStart(pair)
  \/ \E icon \in {"search", "notebook"} : Nav(icon)
  \/ \E term \in {"hola", "Hola", "adios"} : handleSearch(term)
  \/ \E a \in {OracleText(EnrichJson)} : EnrichReturns(a)
  \/ \E a \in {OracleError, [kind |-> "image", text |-> "AAAA"]} : ImageReturns(a)
  \/ toggleSave

SpecStorage == Init /\ [][NextStorage]_vars

\* The questions about an entry, beside lookups that succeed: two terms, one
\* language pair, every answer of the Oracle to a question.
NextAsk ==
  \/ \E pair \in {<<"English", "Spanish">>} : handleStart(pair)
  \/ \E icon \in {"search", "notebook"} : Nav(icon)
  \/ \E term \in {"hola", "adios"} : handleSearch(term)
  \/ \E a \in {OracleText(EnrichJson)} : EnrichReturns(a)
  \/ \E a \in {OracleError} : ImageReturns(a)
  \/ \E input \in AskInputs : handleChatSubmit(input)
  \/ \E r \in chatReqs, a \in AskAnswers : ChatAnswerReturns(r, a)

SpecAsk == Init /\ [][NextAsk]_vars

\* The audio pipeline alone: overlapping playTTS calls on every platform,
\* with every answer of the speech synthesis.
NextAudio ==
  \/ \E c \in Calls : playTTS(c)
  \/ \E c \in Calls, a \in SynthAnswers, state \in ContextStates : SynthReturns(c, a, state)
  \/ \E c \in Calls, resumed \in BOOLEAN : ResumeReturns(c, resumed)
  \/ \E c \in Calls : DecodeReturns(c)
  \/ \E c \in Calls : PlaybackEnds(c)

SpecAudio == InitAudio /\ [][NextAudio]_vars

\* The button of an entry's term, from the result page of that entry: the
\* navigation leaves the page and comes back, the speech synthesis fails or
\* has audio, and the context is constructed running.
NextButton ==
  \/ \E icon \in {"search", "notebook"} : Nav(icon)
  \/ handlePlay
  \/ \E c \in Calls, a \in {OracleError, [kind |-> "audio", text |-> "AQI="]},
        state \in {"running"} : SynthReturns(c, a, state)
  \/ \E c \in Calls : DecodeReturns(c)
  \/ \E p \in plays : PlayReturns(p)
  \/ \E p \in plays : TimerFires(p)
  \/ \E c \in Calls : PlaybackEnds(c)

\* A promise the button awaits settles, or a timeout fires, as long as there
\* is one.
ButtonProgress ==
  \/ \E c \in Calls, a \in {OracleError, [kind |-> "audio", text |-> "AQI="]},
        state \in {"running"} : SynthReturns(c, a, state)
  \/ \E c \in Calls : DecodeReturns(c)
  \/ \E p \in plays : PlayReturns(p)
  \/ \E p \in plays : TimerFires(p)

SpecButtonFair == InitResult /\ [][NextButton]_vars /\ WF_vars(ButtonProgress)

\* The server alone: every request, every answer of the Oracle.
NextServer ==
  \/ \E r \in Requests : Receive(r)
  \/ \E a \in ServerAnswers : OracleAnswers(a)

SpecServer == Init /\ [][NextServer]_vars

\* The flashcards over a notebook of every size, the navigation leaving them
\* and coming back.
NextDeck ==
  \/ \E pair \in {<<"English", "Spanish">>} : handleStart(pair)
  \/ \E icon \in {"notebook", "flashcards"} : Nav(icon)
  \/ flip
  \/ nextCard
  \/ CardTimerFires

SpecDeck == InitDeck /\ [][NextDeck]_vars

\* The roleplay (menu, chat, grading, report) and the navigation, with every
\* answer of the Oracle and no lookup.
NextChat ==
  \/ \E pair \in LangPairs : handleStart(pair)
  \/ \E icon \in {"search", "scenario-menu", "notebook", "flashcards"} : Nav(icon)
  \/ loadScenarios
  \/ \E m \in genReqs, a \in ScenarioAnswers : ScenariosReturn(m, a)
  \/ \E i \in 1..Len(scenarios) : onSelect(i)
  \/ \E input \in ChatInputs : send(input)
  \/ \E r \in turnReqs, a \in ReplyAnswers : ReplyReturns(r, a)
  \/ onEnd
  \/ \E r \in evalReqs, a \in EvalAnswers : EvaluationReturns(r, a)
  \/ onClose

SpecChat == Init /\ [][NextChat]_vars

\* The roleplay alone, from the menu to the report and back, when every call
\* to the Oracle settles: one language pair, one batch of scenarios, every
\* answer to a turn and to an evaluation.
NextRoleplay ==
  \/ \E pair \in {<<"English", "Spanish">>} : handleStart(pair)
  \/ \E icon \in {"search", "scenario-menu"} : Nav(icon)
  \/ \E m \in genReqs, a \in {OracleError, OracleText(OneScenarioJson)} :
       ScenariosReturn(m, a)
  \/ \E i \in 1..Len(scenarios) : onSelect(i)
  \/ \E input \in ChatInputs : send(input)
  \/ \E r \in turnReqs, a \in ReplyAnswers : ReplyReturns(r, a)
  \/ onEnd
  \/ \E r \in evalReqs, a \in EvalAnswers : EvaluationReturns(r, a)
  \/ onClose

SpecRoleplayFair ==
  /\ Init /\ [][NextRoleplay]_vars
  /\ WF_vars(\E r \in turnReqs, a \in ReplyAnswers : ReplyReturns(r, a))
  /\ WF_vars(\E r \in evalReqs, a \in EvalAnswers : EvaluationReturns(r, a))

\* The roleplay session, with the navigation and a lookup running beside it;
\* the notebook stays empty, and one language pair, one term, a lookup that
\* succeeds without image, and one answer of each outcome of the roleplay
\* calls are drawn.
NextSession ==
  \/ \E pair \in {<<"English", "Spanish">>} : handleStart(pair)
  \/ \E icon \in {"search", "scenario-menu", "notebook", "flashcards"} : Nav(icon)
  \/ \E term \in {"hola"} : handleSearch(term)
  \/ \E a \in {OracleText(EnrichJson)} : EnrichReturns(a)
  \/ \E a \in {OracleError} : ImageReturns(a)
  \/ loadScenarios
  \/ \E m \in genReqs, a \in {OracleError, OracleText(ScenariosJson)} : ScenariosReturn(m, a)
  \/ \E i \in 1..Len(scenarios) : onSelect(i)
  \/ \E input \in ChatInputs : send(input)
  \/ \E r \in turnReqs, a \in {OracleError, OracleText("Claro")} : ReplyReturns(r, a)
  \/ onEnd
  \/ \E r \in evalReqs, a \in {OracleError, OracleText(ReportJson)} : EvaluationReturns(r, a)
  \/ onClose

SpecSession == Init /\ [][NextSession]_vars

-----------------------------------------------------------------------------
(* Properties *)

IsPrefix(p, q) == Len(p) <= Len(q) /\ SubSeq(q, 1, Len(p)) = p

\* A chatInScenario call of the mounted ScenarioChat is in flight.
PendingTurn == sid # 0 /\ \E r \in turnReqs : r.sid = sid

\* A step that is a submission of the roleplay form.
IsSubmission == lastOp'.op \in {"send", "send-rejected"}

\* C1: no ScenarioChat ever has two chatInScenario calls in flight, and a
\* submission made while one is in flight is rejected and adds no call.
C1_SingleFlight ==
  /\ [](\A s \in 1..MaxSessions : Cardinality({r \in turnReqs : r.sid = s}) <= 1)
  /\ [][(PendingTurn /\ IsSubmission)
          => (lastOp'.op = "send-rejected" /\ turnReqs' = turnReqs)]_vars

\* A non-blank submission was rejected because a call is in flight.
C1_Witness == lastOp.op = "send-rejected" /\ lastOp.a.text = "si" /\ PendingTurn

\* C2: a submission made while a call is in flight leaves the history as it
\* is, in length and in content, and issues no Oracle call of any kind.
C2_PendingSubmissionIsNoOp ==
  [][(PendingTurn /\ IsSubmission)
       => /\ Len(history') = Len(history)
          /\ history' = history
          /\ turnReqs' = turnReqs
          /\ evalReqs' = evalReqs
          /\ genReqs' = genReqs
          /\ search' = search
          /\ strayImages' = strayImages]_vars

\* A submission was rejected during the second exchange of a session.
C2_Witness == lastOp.op = "send-rejected" /\ PendingTurn /\ Len(history) = 4

\* C3: an accepted submission issues one call, whose history and prompt are
\* the history before the submission followed by the new learner turn, whole.
C3_FullHistorySent ==
  [][lastOp'.op = "send"
       => LET full == Append(history, [role |-> "user", text |-> lastOp'.a.text])
          IN /\ history' = full
             /\ turnReqs' \ turnReqs =
                  {[sid |-> sid, history |-> full,
                    prompt |-> [i \in 1..Len(full) |->
                                  full[i].role \o ": " \o full[i].text]]}]_vars

\* The second submission of a session was sent with all four turns.
C3_Witness ==
  /\ lastOp.op = "send"
  /\ \E r \in turnReqs : r.sid = sid /\ Len(r.prompt) = 4 /\ r.history = history

\* C4: while a ScenarioChat stays mounted its history only grows at the end.
C4_AppendOnly == [][(sid # 0 /\ sid' = sid) => IsPrefix(history, history')]_vars

\* A session has grown to two full exchanges.
C4_Witness == sid # 0 /\ Len(history) = 5 /\ history[5].role = "model"

\* C5: the history of a mounted ScenarioChat starts with a counterpart turn,
\* its roles alternate, and it ends with a learner turn exactly while that
\* turn's call is in flight: every accepted turn gets its counterpart turn.
C5_RolesAlternate ==
  sid # 0 =>
    /\ Len(history) >= 1
    /\ \A i \in 1..Len(history) :
         history[i].role = IF i % 2 = 1 THEN "model" ELSE "user"
    /\ (history[Len(history)].role = "user") <=> PendingTurn

\* Two exchanges, the first answered by a failed call.
C5_Witness ==
  /\ sid # 0
  /\ Len(history) = 5
  /\ history[3].text = "..."
  /\ ~PendingTurn

\* C6: end session issues exactly one evaluateScenario call, with the whole
\* history of that moment, a turn still awaiting its reply included.
C6_EndEvaluatesWholeHistory ==
  [][(view = "scenario-chat" /\ view' = "scenario-report")
       => /\ evalReqs \subseteq evalReqs'
          /\ Cardinality(evalReqs' \ evalReqs) = 1
          /\ \A r \in evalReqs' \ evalReqs :
               /\ r.history = history
               /\ Len(r.history) = Len(history)
               /\ r.prompt = [i \in 1..Len(history) |->
                                history[i].role \o ": " \o history[i].text]]_vars

\* A session was ended while its second learner turn awaited the reply.
C6_Witness ==
  \E r \in evalReqs : Len(r.history) = 4 /\ \E t \in turnReqs : t.sid = r.sid

\* The report page shows a report: the evaluation is over and one is set.
ReportShown == view = "scenario-report" /\ ~reportLoading /\ scenarioReport # <<>>

\* The Oracle's answer to an evaluation is an error or is not JSON.
EvalFails(a) == a.kind = "error" \/ (a.kind = "text" /\ a.text = NotJson)

\* C7: once a failed evaluation has been handled the view is the scenario
\* menu and no report is shown.
C7_FailedEvaluationReturnsToMenu ==
  (lastOp.op = "evaluated" /\ EvalFails(lastOp.a))
    => (view = "scenario-menu" /\ ~ReportShown)

\* C8: a lookup that completes while the roleplay chat or its report is on
\* screen leaves the view, the mounted session and its history as they are.
C8_StaleLookupDiscarded ==
  [][(search # <<>> /\ search' = <<>> /\ view \in {"scenario-chat", "scenario-report"})
       => (view' = view /\ sid' = sid /\ history' = history)]_vars

\* The Oracle's answer to lookupTerm is a failure of the call.
EnrichFails(a) ==
  \/ a.kind \in {"error", "nokey"}
  \/ a.kind = "text" /\ a.text \in {"", NotJson}

\* C9: a lookup whose enrichment fails ends as a failure whatever the image
\* call gave: currentEntry, the notebook and the view stay as they were.
C9_EnrichFailureDiscardsImage ==
  [][(lastOp'.op \in {"search-done", "search-failed"} /\ EnrichFails(lastOp'.a))
       => /\ lastOp'.op = "search-failed"
          /\ currentEntry' = currentEntry
          /\ savedEntries' = savedEntries
          /\ view' = view
          /\ ~isSearching']_vars

\* A lookup failed although its image call had returned an image.
C9_Witness ==
  /\ lastOp.op = "search-failed"
  /\ lastOp.a.kind = "error"
  /\ lastOp.b.kind = "image"

\* C10: a lookup whose enrichment succeeds and whose image call fails shows
\* an entry with the enrichment's fields, the submitted term and no image.
C10_ImageFailureKeepsEntry ==
  [][(/\ lastOp'.op \in {"search-done", "search-failed"}
      /\ lastOp'.a = OracleText(EnrichJson)
      /\ lastOp'.b.kind \in {"error", "noimage"})
       => /\ lastOp'.op = "search-done"
          /\ view' = "result"
          /\ currentEntry' # <<>>
          /\ LET e == currentEntry'[1]
             IN /\ e.imageUrl = Undefined
                /\ e.term = search[1].term
                /\ e.targetTerm = <<"hola">>
                /\ e.phonetic = <<"o.la">>
                /\ e.nativeDefinition = <<"a greeting">>
                /\ e.usageNote = <<"informal">>
                /\ e.examples = <<<<Example1, Example2>>>>]_vars

\* An entry without image is shown after the image call failed.
C10_Witness ==
  /\ lastOp.op = "search-done"
  /\ lastOp.b.kind = "error"
  /\ view = "result"
  /\ currentEntry # <<>>
  /\ currentEntry[1].imageUrl = Undefined
  /\ currentEntry[1].targetTerm # Undefined

\* The comparison key of a term: trimmed and case-folded.
Key(term) == ToLowerCase(Trim(term))

\* A step in which handleSearch misses the notebook and starts a lookup.
LookupStarts == search = <<>> /\ search' # <<>>

\* C11: a lookup is started only for a term whose key (trimmed, case-folded)
\* is the key of no saved entry: a term that differs from a saved one only by
\* letter case or by surrounding whitespace hits the saved entry.
C11_NormalizedTermHits ==
  [][LookupStarts
       => \A i \in 1..Len(savedEntries) :
            Key(savedEntries[i].term) # Key(search'[1].term)]_vars

\* C12: a lookup that hits the notebook shows the saved entry as it is saved
\* and starts no call; and no lookup is ever started for a term that an entry
\* of the notebook matches, so a saved term is never fetched again.
C12_CacheHitFetchesNothing ==
  /\ [][lastOp'.op = "search-hit"
          => /\ \E i \in 1..Len(savedEntries) :
                  /\ ToLowerCase(savedEntries[i].term) = ToLowerCase(lastOp'.a.text)
                  /\ currentEntry' = <<savedEntries[i]>>
             /\ search' = search
             /\ search' = <<>>
             /\ strayImages' = strayImages
             /\ ~isSearching'
             /\ savedEntries' = savedEntries
             /\ view' = "result"]_vars
  /\ [][LookupStarts
          => \A i \in 1..Len(savedEntries) :
               ToLowerCase(savedEntries[i].term) # ToLowerCase(search'[1].term)]_vars

\* "Hola" has hit the saved entry of "hola", which has an image.
C12_Witness ==
  /\ lastOp.op = "search-hit"
  /\ lastOp.a.text = "Hola"
  /\ currentEntry # <<>>
  /\ currentEntry[1].term = "hola"
  /\ currentEntry[1].imageUrl # Undefined
  /\ \E i \in 1..Len(savedEntries) : savedEntries[i] = currentEntry[1]

\* A step of handleSearch: a hit, the start of a lookup, or its completion.
IsResolveStep ==
  \/ lastOp'.op \in {"search-hit", "search-done", "search-failed"}
  \/ LookupStarts

\* C13: the notebook changes only by toggleSave, which puts the current entry
\* in front or takes out the entries with its id and touches nothing of the
\* lookup; no step of handleSearch changes it.
C13_OnlyToggleSaveWrites ==
  /\ [][savedEntries' # savedEntries
          => /\ view = "result"
             /\ currentEntry # <<>>
             /\ \/ savedEntries' = <<currentEntry[1]>> \o savedEntries
                \/ savedEntries' =
                     SelectSeq(savedEntries, LAMBDA e : e.id # currentEntry[1].id)
             /\ UNCHANGED <<currentEntry, search, isSearching, view, strayImages>>
             /\ ~IsResolveStep]_vars
  /\ [][IsResolveStep => savedEntries' = savedEntries]_vars

\* A lookup has run to its entry beside a notebook that holds another entry.
C13_Witness ==
  /\ lastOp.op = "search-done"
  /\ Len(savedEntries) = 1
  /\ currentEntry # <<>>
  /\ savedEntries[1].term # currentEntry[1].term

\* C14: the notebook never holds two entries whose terms are equal up to
\* letter case.
C14_UniqueTerms ==
  \A i, j \in 1..Len(savedEntries) :
    ToLowerCase(savedEntries[i].term) = ToLowerCase(savedEntries[j].term) => i = j

\* Every field the Enrich payload must give is present in the entry e, each
\* example with its three fields.
FullyPopulated(e) ==
  /\ e.targetTerm # <<>>
  /\ e.phonetic # <<>>
  /\ e.nativeDefinition # <<>>
  /\ e.usageNote # <<>>
  /\ e.examples # <<>>
  /\ \A k \in 1..Len(e.examples[1]) :
       {"text", "phonetic", "translation"} \subseteq DOMAIN e.examples[1][k]

\* C15: no entry with a missing field is ever the current entry or saved.
C15_NoPartialEntry ==
  /\ currentEntry # <<>> => FullyPopulated(currentEntry[1])
  /\ \A i \in 1..Len(savedEntries) : FullyPopulated(savedEntries[i])

\* C16: the entry a lookup assembles has an id that no saved entry and not
\* the entry shown before it has.
C16_FreshId ==
  [][lastOp'.op = "search-done"
       => /\ \A i \in 1..Len(savedEntries) : savedEntries[i].id # currentEntry'[1].id
          /\ currentEntry # <<>> => currentEntry[1].id # currentEntry'[1].id]_vars

\* C17: the step from the menu into the chat mounts a ScenarioChat for one of
\* the menu's scenarios, whose history is the single counterpart turn with
\* that scenario's openingLine, not loading and with no call of its in flight.
C17_SelectSeedsHistory ==
  [][(view = "scenario-menu" /\ view' = "scenario-chat")
       => \E i \in 1..Len(scenarios) :
            /\ activeScenario' = <<scenarios[i]>>
            /\ history' = <<[role |-> "model", text |-> scenarios[i].openingLine]>>
            /\ ~loading'
            /\ sid' # 0
            /\ \A r \in turnReqs' : r.sid # sid']_vars

\* The second scenario of a batch has just been selected.
C17_Witness ==
  /\ view = "scenario-chat"
  /\ activeScenario = <<ScenB>>
  /\ history = <<[role |-> "model", text |-> "Que desea"]>>
  /\ ~loading

\* C18: while the generateScenarios call of the mounted menu is in flight no
\* step leaves the menu for the chat.
C18_NoSelectionWhileLoading ==
  [][(view = "scenario-menu" /\ menuId \in genReqs) => view' # "scenario-chat"]_vars

\* A refresh is in flight while the menu holds a batch.
C18_Witness ==
  /\ view = "scenario-menu"
  /\ menuId \in genReqs
  /\ menuLoading
  /\ Len(scenarios) = 2

\* C19: when the generateScenarios call of the mounted menu fails, the menu
\* keeps the batch it held.
C19_FailedRefreshKeepsBatch ==
  [][(lastOp'.op = "scenarios-loaded" /\ lastOp'.a.kind = "error")
       => scenarios' = scenarios]_vars

\* C20: when the chatInScenario call fails, no turn is appended to the
\* history, no call is issued and the chat is no longer loading.
C20_FailedTurnDropped ==
  [][(lastOp'.op = "reply" /\ lastOp'.a.kind = "error")
       => /\ Len(history') <= Len(history)
          /\ \A i \in 1..Len(history') : history'[i].text # "..."
          /\ turnReqs' \subseteq turnReqs
          /\ ~loading']_vars

\* C21: back in the menu, App holds no report.
C21_ReportDiscardedOnLeave == view = "scenario-menu" => scenarioReport = <<>>

\* C22: the report App holds has a score and a list of corrections.
C22_ReportWellFormed ==
  scenarioReport # <<>>
    => /\ "score" \in DOMAIN scenarioReport[1]
       /\ "corrections" \in DOMAIN scenarioReport[1]

\* C28: a reply that arrives when its chat is no longer on screen changes
\* neither the histories under evaluation nor the view, the report, the
\* grading flag or the chat state.
C28_EndFreezesHistory ==
  [][(turnReqs' # turnReqs /\ turnReqs' \subseteq turnReqs /\ view # "scenario-chat")
       => UNCHANGED <<evalReqs, view, scenarioReport, reportLoading,
                      history, loading, sid>>]_vars

\* During grading, the reply to the last learner turn of the history under
\* evaluation has arrived: its call is no longer in flight.
C28_Witness ==
  /\ view = "scenario-report"
  /\ reportLoading
  /\ turnReqs = {}
  /\ \E e \in evalReqs :
       /\ Len(e.history) = 4
       /\ e.history[4].role = "user"

\* C29: the chat is entered only from the menu, for one of its scenarios;
\* grading only from the chat, with the evaluation call issued; and a report
\* comes to be shown only in the report view as an evaluation call returns.
C29_DesignatedPredecessors ==
  /\ [][(view # "scenario-chat" /\ view' = "scenario-chat")
          => /\ view = "scenario-menu"
             /\ \E i \in 1..Len(scenarios) : activeScenario' = <<scenarios[i]>>]_vars
  /\ [][(view # "scenario-report" /\ view' = "scenario-report")
          => /\ view = "scenario-chat"
             /\ reportLoading'
             /\ evalReqs' # evalReqs]_vars
  /\ [][(~ReportShown /\ ReportShown')
          => /\ view = "scenario-report"
             /\ reportLoading
             /\ lastOp'.op = "evaluated"
             /\ evalReqs' # evalReqs]_vars

\* A report is shown, reached through menu, chat and grading.
C29_Witness ==
  /\ ReportShown
  /\ lastOp.op = "evaluated"
  /\ activeScenario # <<>>

\* C27: the lookup of the notebook goes by the term alone: no lookup is
\* started for a term that a saved entry matches, under whatever language
\* pair that entry was made, and a hit shows the first saved entry of the
\* term, starts no call and keeps the language pair.
C27_CacheIgnoresLanguagePair ==
  /\ [][LookupStarts
          => \A i \in 1..Len(savedEntries) :
               madeUnder.saved[i] # langs
                 => ToLowerCase(savedEntries[i].term) # ToLowerCase(search'[1].term)]_vars
  /\ [][lastOp'.op = "search-hit"
          => /\ \A i \in 1..Len(savedEntries) :
                  (/\ ToLowerCase(savedEntries[i].term) = ToLowerCase(lastOp'.a.text)
                   /\ \A j \in 1..(i - 1) :
                        ToLowerCase(savedEntries[j].term) # ToLowerCase(lastOp'.a.text))
                    => /\ currentEntry' = <<savedEntries[i]>>
                       /\ madeUnder'.cur = <<madeUnder.saved[i]>>
             /\ UNCHANGED <<search, strayImages, langs, savedEntries>>
             /\ search = <<>>]_vars

\* Under one language pair, a lookup has hit an entry made under the other.
C27_Witness ==
  /\ lastOp.op = "search-hit"
  /\ currentEntry # <<>>
  /\ madeUnder.cur # <<>>
  /\ madeUnder.cur[1] # langs
  /\ view = "result"
  /\ search = <<>>

BytesOf(text) ==
  LET binaryString == atob(Chars(text))
  IN IF binaryString.threw THEN <<>> ELSE binaryString.value[1]

\* The text is base64.
IsBase64(text) == ~atob(Chars(text)).threw

\* The buffer decoded from bytes has a frame for every two of them, each the
\* signed 16-bit integer of its two bytes, low byte first, over 32768, and
\* so in [-1, 1).
DecodesTo(bytes, decoded) ==
  /\ ~decoded.threw
  /\ decoded.value[1].length = Len(bytes) \div 2
  /\ DOMAIN decoded.value[1].channelData = 1..(Len(bytes) \div 2)
  /\ \A i \in 1..(Len(bytes) \div 2) :
       LET u == bytes[2 * i - 1] + 256 * bytes[2 * i]
           n == IF u >= 32768 THEN u - 65536 ELSE u
       IN /\ decoded.value[1].channelData[i] = <<n, 32768>>
          /\ -32768 <= n
          /\ n < 32768

\* C23 as stated: every byte buffer of even length 2n decodes to n samples.
C23_EvenLengthDecodes ==
  \A c \in Calls :
    (/\ tts[c].decoded # <<>>
     /\ IsBase64(tts[c].data)
     /\ Len(BytesOf(tts[c].data)) % 2 = 0)
      => DecodesTo(BytesOf(tts[c].data), tts[c].decoded[1])

\* C23: a byte buffer of even length 2n with n >= 1 decodes to n samples,
\* sample i being the signed little-endian 16-bit integer of bytes 2i and
\* 2i+1 over 32768, in [-1, 1); the bytes 00 00 FF 7F 00 80 decode to 0,
\* 32767 and -32768 over 32768; an empty buffer is not decoded, the decode
\* throws.
C23_NonEmptyEvenLengthDecodes ==
  \A c \in Calls :
    tts[c].decoded # <<>>
      => /\ (/\ IsBase64(tts[c].data)
             /\ Len(BytesOf(tts[c].data)) % 2 = 0
             /\ Len(BytesOf(tts[c].data)) >= 2)
              => DecodesTo(BytesOf(tts[c].data), tts[c].decoded[1])
         /\ (IsBase64(tts[c].data) /\ BytesOf(tts[c].data) = <<>>)
              => tts[c].decoded[1].threw
         /\ tts[c].data = "AAD/fwCA"
              => /\ BytesOf(tts[c].data) = <<0, 0, 255, 127, 0, 128>>
                 /\ ~tts[c].decoded[1].threw
                 /\ tts[c].decoded[1].value[1].channelData
                      = <<<<0, 32768>>, <<32767, 32768>>, <<-32768, 32768>>>>

\* The bytes 00 00 FF 7F 00 80 have been decoded to three samples, and play.
C23_Witness ==
  \E c \in Calls :
    /\ tts[c].data = "AAD/fwCA"
    /\ tts[c].stage = "done"
    /\ tts[c].decoded # <<>>
    /\ tts[c].decoded[1].value[1].length = 3
    /\ \E s \in sources : s.call = c /\ s.buffer = tts[c].decoded[1].value[1]

\* C24: at most one AudioContext is ever constructed; it is constructed only
\* in the step in which a call that got audio data passes on to the device,
\* the module keeps it from then on, and every source plays on it.
C24_OneContextMemoized ==
  /\ [](/\ contextsMade <= 1
        /\ (audioContext = <<>> <=> contextsMade = 0)
        /\ \A s \in sources : audioContext # <<>> /\ s.ctx = audioContext[1].id)
  /\ [][contextsMade' # contextsMade
          => \E c \in Calls :
               /\ tts[c].stage = "synth"
               /\ tts'[c].stage \in {"resume", "decode"}
               /\ tts'[c].data # ""]_vars
  /\ [][audioContext # <<>>
          => /\ audioContext' # <<>>
             /\ audioContext'[1].id = audioContext[1].id]_vars

\* While one call's source plays on the context, a later call has passed the
\* device step on the same context.
C24_Witness ==
  /\ contextsMade = 1
  /\ \E c, d \in Calls :
       /\ c # d
       /\ \E s \in sources : s.call = c /\ s.ctx = audioContext[1].id
       /\ tts[d].stage = "decode"

\* The audio data cannot be decoded: it is not base64, or its bytes are odd
\* in number or none.
Undecodable(text) ==
  \/ ~IsBase64(text)
  \/ Len(BytesOf(text)) % 2 = 1
  \/ BytesOf(text) = <<>>

\* C25: a call of playTTS that is over has returned, never thrown; and the
\* step that ends a call whose synthesis failed or gave no audio, whose
\* platform has no usable AudioContext, whose resume was rejected or whose
\* data cannot be decoded starts no source.
C25_PlayNeverThrows ==
  /\ [](\A c \in Calls : tts[c].stage = "done" => tts[c].result = "returned")
  /\ [][\A c \in Calls :
          (/\ tts'[c].stage = "done"
           /\ \/ tts[c].stage \in {"synth", "resume"}
              \/ tts[c].stage = "decode" /\ Undecodable(tts[c].data))
            => /\ sources' = sources
               /\ tts'[c].result = "returned"]_vars

\* A call whose audio data has three bytes is over: it returned and no source
\* of it plays.
C25_Witness ==
  \E c \in Calls :
    /\ tts[c].stage = "done"
    /\ tts[c].data = "AAAA"
    /\ tts[c].result = "returned"
    /\ contextsMade = 1
    /\ \A s \in sources : s.call # c

\* C26: a step of one call leaves every other call where it stands, a source
\* stops only as its own stream ends, and every call that is over after a
\* successful decode has its source playing: calls in flight together each
\* start their own stream.
C26_CallsIndependent ==
  /\ [][\A c \in Calls :
          tts'[c] # tts[c] => \A d \in Calls \ {c} : tts'[d] = tts[d]]_vars
  /\ [][\A s \in sources :
          s \in sources'
            \/ (tts[s.call].stage = "done" /\ tts'[s.call].stage = "idle")]_vars
  /\ [](\A c \in Calls :
          (/\ tts[c].stage = "done"
           /\ tts[c].decoded # <<>>
           /\ ~tts[c].decoded[1].threw)
            => \E s \in sources :
                 s.call = c /\ s.buffer = tts[c].decoded[1].value[1])

\* Two calls were in flight together and the sources of both play.
C26_Witness ==
  \E c, d \in Calls :
    /\ c # d
    /\ tts[c].stage = "done"
    /\ tts[d].stage = "done"
    /\ \E s \in sources : s.call = c
    /\ \E s \in sources : s.call = d

\* C31: a resolve starts (a hit, or a lookup) only while none is in flight,
\* isSearching is set exactly while a lookup is in flight, a hit leaves it
\* clear, and, the Oracle's calls settling, it is cleared again.
C31_OneResolveAndCleared ==
  /\ [](isSearching <=> search # <<>>)
  /\ [][(LookupStarts \/ lastOp'.op = "search-hit") => ~isSearching]_vars
  /\ [][lastOp'.op \in {"search-hit", "search-done", "search-failed"}
          => ~isSearching']_vars
  /\ (isSearching ~> ~isSearching)

\* A lookup has failed and the search box is enabled again.
C31_Witness ==
  /\ lastOp.op = "search-failed"
  /\ ~isSearching
  /\ search = <<>>
  /\ HeaderVisible

\* C32: the chat awaits only while its call is in flight and grading lasts
\* only while the evaluation is in flight; the step that handles a reply
\* leaves the chat idle, the step that handles an evaluation ends grading
\* with a report set or the menu on screen; and, the calls settling, neither
\* state lasts.
C32_NeverStuckAwaiting ==
  /\ [](loading => PendingTurn)
  /\ [](reportLoading => (view = "scenario-report" /\ evalReqs # {}))
  /\ [][lastOp'.op = "reply" => (~loading' /\ view' = "scenario-chat")]_vars
  /\ [][lastOp'.op = "evaluated"
          => /\ ~reportLoading'
             /\ \/ view' = "scenario-report" /\ scenarioReport' # <<>>
                \/ view' = "scenario-menu"]_vars
  /\ (loading ~> ~loading)
  /\ (reportLoading ~> ~reportLoading)

\* After a reply that failed the chat is idle again, a second exchange behind it.
C32_Witness ==
  /\ lastOp.op = "reply"
  /\ lastOp.a.kind = "error"
  /\ view = "scenario-chat"
  /\ ~loading
  /\ Len(history) = 5

\* The notebook without the entries that have the id.
Without(entries, id) == SelectSeq(entries, LAMBDA e : e.id # id)

\* An entry of the notebook has the id.
HasId(entries, id) == \E i \in 1..Len(entries) : entries[i].id = id

\* What the claim says of one toggle of the entry cur on the notebook
\* entries: in front if none has its id, else all that have its id are out.
Toggled(entries, cur) ==
  IF HasId(entries, cur.id) THEN Without(entries, cur.id) ELSE <<cur>> \o entries

\* Every step that changes the notebook is one toggle of the current entry,
\* which stays the current entry.
EachChangeIsOneToggle ==
  [][savedEntries' # savedEntries
       => /\ currentEntry # <<>>
          /\ currentEntry' = currentEntry
          /\ savedEntries' = Toggled(savedEntries, currentEntry[1])
          /\ HasId(savedEntries, currentEntry[1].id)
               => \A i \in 1..Len(savedEntries') :
                    savedEntries'[i].id # currentEntry[1].id
          /\ ~HasId(savedEntries, currentEntry[1].id)
               => /\ Head(savedEntries') = currentEntry[1]
                  /\ Tail(savedEntries') = savedEntries]_vars

\* C33 as stated: besides, two toggles of the entry on a result page always
\* give the notebook back as it was.
C33_ToggleTwiceRestores ==
  /\ EachChangeIsOneToggle
  /\ []((view = "result" /\ currentEntry # <<>>)
          => Toggled(Toggled(savedEntries, currentEntry[1]), currentEntry[1])
               = savedEntries)

\* C33: toggleSave puts a current entry whose id no saved entry has at the
\* front and leaves the others in their order; otherwise it takes out exactly
\* the entries with that id; without a current entry the notebook does not
\* change.  Two toggles give the notebook back as it was when the entry was
\* not saved; when it was saved they leave it at the front, before the
\* other entries in their order.
C33_ToggleSaveFrontOrRemove ==
  /\ EachChangeIsOneToggle
  /\ []((view = "result" /\ currentEntry # <<>>)
          => LET cur == currentEntry[1]
                 twice == Toggled(Toggled(savedEntries, cur), cur)
             IN IF HasId(savedEntries, cur.id)
                THEN twice = <<cur>> \o Without(savedEntries, cur.id)
                ELSE twice = savedEntries)

\* The entry on the result page is saved behind another entry, has just been
\* taken out of the notebook, or has just been put in front of another.
C33_Witness ==
  /\ view = "result"
  /\ currentEntry # <<>>
  /\ Len(savedEntries) = 2
  /\ savedEntries[2] = currentEntry[1]
  /\ savedEntries[1].id # currentEntry[1].id

\* C34: when the entry on the result page gives way to another the chat is
\* empty, and an answer is put in the chat only if its question was asked
\* about the term now shown.
C34_ChatOnlyAboutShownEntry ==
  /\ [][(currentEntry # <<>> /\ currentEntry' # currentEntry /\ view' = "result")
          => chatHistory' = <<>>]_vars
  /\ [][\A r \in chatReqs \ chatReqs' :
          chatHistory' # chatHistory
            => r.currentTerm = displayTerm(currentEntry[1])]_vars

\* A step of the question box: a submission, or an answer taken.
IsAsk == lastOp'.op \in {"ask", "ask-rejected"}

\* A chatWithAI call of the mounted ResultView is in flight.
PendingAsk == rvId # 0 /\ \E r \in chatReqs : r.rv = rvId

\* C35: no ResultView has two chatWithAI calls in flight; a question that is
\* blank or is submitted while a call is in flight changes nothing; an
\* accepted question puts one user message at the end of the chat and issues
\* one call; an answer puts one model message at the end, the fixed sentence
\* when the call failed; so the chat alternates user and model messages.
C35_AskSingleFlight ==
  /\ [](\A n \in 1..MaxResults : Cardinality({r \in chatReqs : r.rv = n}) <= 1)
  /\ [](isChatting <=> PendingAsk)
  /\ [](\A i \in 1..Len(chatHistory) :
          chatHistory[i].role = IF i % 2 = 1 THEN "user" ELSE "model")
  /\ [](isChatting <=> Len(chatHistory) % 2 = 1)
  /\ [][(IsAsk /\ (Trim(lastOp'.a.text) = "" \/ PendingAsk))
          => /\ lastOp'.op = "ask-rejected"
             /\ UNCHANGED <<chatHistory, isChatting, chatReqs, turnReqs, evalReqs,
                            genReqs, search, strayImages, currentEntry,
                            savedEntries, view>>]_vars
  /\ [][lastOp'.op = "ask"
          => /\ chatHistory' =
                  Append(chatHistory, [role |-> "user", text |-> lastOp'.a.text])
             /\ Cardinality(chatReqs') = Cardinality(chatReqs) + 1
             /\ \E r \in chatReqs' \ chatReqs :
                  r.newMessage = lastOp'.a.text /\ r.history = chatHistory]_vars
  /\ [][lastOp'.op = "answer"
          => /\ Len(chatHistory') = Len(chatHistory) + 1
             /\ SubSeq(chatHistory', 1, Len(chatHistory)) = chatHistory
             /\ chatHistory'[Len(chatHistory')].role = "model"
             /\ chatHistory'[Len(chatHistory')].text =
                  IF lastOp'.a.kind = "error"
                  THEN "I'm having trouble thinking right now."
                  ELSE lastOp'.a.text
             /\ chatHistory[Len(chatHistory)].role = "user"]_vars

\* A question was rejected while the answer to the second question of the
\* chat is awaited, the first having failed.
C35_Witness ==
  /\ lastOp.op = "ask-rejected"
  /\ lastOp.a.text = "why"
  /\ PendingAsk
  /\ Len(chatHistory) = 3
  /\ chatHistory[2].text = "I'm having trouble thinking right now."

\* The mounted button has a playTTS call in flight.
OwnCalls(rv) == {p \in plays : p.rv = rv /\ p.stage = "tts"}

\* C36: no AudioButton has two of its playTTS calls in flight, and the one
\* in flight belongs to a call that has not been handed back; a click while
\* isPlaying changes nothing; a click otherwise starts one call; and a
\* button that plays is, in the end, a button that does not.
C36_ButtonSingleFlightAndReset ==
  /\ [](\A rv \in 1..MaxResults :
          /\ Cardinality({p \in plays : p.rv = rv}) <= 1
          /\ \A p \in OwnCalls(rv) : tts[p.call].stage # "idle")
  /\ []((rvId # 0 /\ OwnCalls(rvId) # {}) => isPlaying)
  /\ [][(lastOp'.op \in {"play", "play-rejected"} /\ isPlaying)
          => (lastOp'.op = "play-rejected" /\ UNCHANGED <<isPlaying, plays, tts, sources>>)]_vars
  /\ [][lastOp'.op = "play"
          => (isPlaying' /\ Cardinality(OwnCalls(rvId)') = 1 /\ OwnCalls(rvId) = {})]_vars
  /\ (isPlaying ~> ~isPlaying)

\* The button stopped showing that it plays after a call that failed: the
\* timeout has fired on the mounted button and nothing sounds.
C36_Witness ==
  /\ lastOp.op = "-"
  /\ view = "result"
  /\ ~isPlaying
  /\ plays = {}
  /\ sources = {}
  /\ \E c \in Calls : tts[c].stage = "done" /\ tts[c].result = "returned"

\* The trail of the mounted view repeats with period n and goes up by one
\* modulo n.
TrailCycles(n) ==
  /\ \A j \in 1..Len(cardTrail) - 1 : cardTrail[j + 1] = (cardTrail[j] + 1) % n
  /\ \A j \in 1..Len(cardTrail) : j + n <= Len(cardTrail) => cardTrail[j + n] = cardTrail[j]

\* C38 as stated: in the flashcards view the index is at least 0 and less
\* than the number of saved entries, whatever that number; Next advances it
\* by one modulo that number; as many advances as there are entries lead back
\* to the same card.
C38_IndexAlwaysWithinNotebook ==
  /\ [](view = "flashcards"
          => (0 <= currentIndex /\ currentIndex < Len(savedEntries)))
  /\ [][lastOp'.op = "advance"
          => currentIndex' = (currentIndex + 1) % Len(savedEntries)]_vars
  /\ [](DeckShown => TrailCycles(Len(savedEntries)))

\* C38, amended: the same of a notebook that has entries (over an empty one
\* the view shows nothing, with its index at 0).
C38_IndexWithinShownDeck ==
  /\ [](DeckShown => (0 <= currentIndex /\ currentIndex < Len(savedEntries)))
  /\ [](DeckShown => cardTrail[Len(cardTrail)] = currentIndex)
  /\ [][lastOp'.op = "advance"
          => (DeckShown /\ currentIndex' = (currentIndex + 1) % Len(savedEntries))]_vars
  /\ [][lastOp'.op = "next" => UNCHANGED <<currentIndex, savedEntries, view>>]_vars
  /\ [](DeckShown => TrailCycles(Len(savedEntries)))

\* Over two entries the second advance has led back to the first card.
C38_Witness ==
  /\ lastOp.op = "advance"
  /\ view = "flashcards"
  /\ Len(savedEntries) = 2
  /\ cardTrail = <<0, 1, 0>>
  /\ currentIndex = 0

\* The request in hand is one that must go through: a POST with a body that
\* has what its handler reads.
WellFormed ==
  /\ apiReq.method = "POST"
  /\ apiReq.body = "full"
  /\ apiReq.handler = "scenario" => apiReq.action \in {"generate", "chat", "evaluate"}

\* C37: a request that is not a POST gets 405 and no Oracle call; a failure
\* (no body, a missing field, the Oracle rejecting, a text that is not JSON,
\* no image or audio in the answer) gets 500 with a message; the scenario
\* handler gives 400 to an action it does not know; and there is one
\* response per request, none while the Oracle is awaited.
C37_HandlersAnswerOnce ==
  /\ [](apiReq # NoRequest =>
          /\ Len(apiResponses) = (IF apiAwaiting THEN 0 ELSE 1)
          /\ apiCalls <= 1
          /\ apiAwaiting => apiCalls = 1)
  /\ [](apiReq.method = "GET" =>
          (apiCalls = 0 /\ apiResponses = <<[status |-> 405, error |-> "Method Not Allowed"]>>))
  /\ []((apiReq.method = "POST" /\ apiReq.body = "undefined") =>
          (apiCalls = 0 /\ apiResponses[1].status = 500 /\ apiResponses[1].error # ""))
  /\ []((apiReq.method = "POST" /\ apiReq.handler = "scenario" /\ apiReq.body # "undefined"
           /\ apiReq.action \in {"dance", "-"}) =>
          (apiCalls = 0 /\ apiResponses = <<[status |-> 400, error |-> "Invalid action"]>>))
  /\ [](WellFormed => apiCalls = 1)
  /\ [](\A i \in 1..Len(apiResponses) :
          /\ apiResponses[i].status \in {200, 400, 405, 500}
          /\ apiResponses[i].status = 200 <=> apiResponses[i].error = ""
          /\ apiResponses[i].status = 200 => (apiReq.method = "POST" /\ apiCalls = 1))
  /\ [][lastOp'.op = "served" =>
          /\ Len(apiResponses) = 0
          /\ lastOp'.a.kind = "error" =>
               apiResponses' = <<[status |-> 500, error |-> lastOp'.a.text]>>
          /\ (lastOp'.a.text = NotJson
                /\ (apiReq.handler = "lookup" \/ apiReq.action \in {"generate", "evaluate"})) =>
               apiResponses'[1].status = 500
          /\ (lastOp'.a.kind # "media" /\ apiReq.handler \in {"image", "tts"}) =>
               apiResponses'[1].status = 500]_vars

\* The speech handler answered 500 with the Oracle's message.
C37_Witness ==
  /\ lastOp.op = "served"
  /\ lastOp.a.kind = "error"
  /\ apiReq.handler = "tts"
  /\ apiResponses = <<[status |-> 500, error |-> "quota exceeded"]>>
  /\ apiCalls = 1

====
